---- MODULE Spec2Model ----
(***************************************************************************)
(* Verification model of the runtime model-configuration store             *)
(* (backend/src/integrations/llm/config_store.py) and of the tool-server   *)
(* manager (backend/src/integrations/mcp/manager.py).                      *)
(*                                                                         *)
(* The two subsystems share no state.  StoreSpec runs the store with the   *)
(* manager idle, MgrSpec runs the manager with the store idle.             *)
(***************************************************************************)
EXTENDS Integers, Sequences, FiniteSets, TLC

VARIABLES
    modelsFile,    \* the registry file: [state, models]
    activeFile,    \* the active-pointer file: [exists, text]
    lock,          \* ModelConfigStore._lock: "free" or the thread holding it
    constructed,   \* ModelConfigStore.__init__ has returned normally
    pc,            \* per thread: where it is inside a store operation
    call,          \* per thread: the operation it runs or has last run
    existing,      \* per thread: upsert_config's local dict `existing`
    ret,           \* per thread: what its last finished operation returned or raised
    ops            \* number of store operations called so far

storeVars == <<modelsFile, activeFile, lock, constructed, pc, call, existing, ret, ops>>

VARIABLES
    servers,       \* MCPManager._servers: server name -> instance id
    mconfigs,      \* MCPManager._configs: the tracked descriptor list
    initialized,   \* MCPManager._initialized
    mlock,         \* MCPManager._lock: [holder, waiters], an asyncio.Lock
    inst,          \* every instance ever started: [name, closes, raised]
    mpc,           \* per caller: where its coroutine is suspended
    mcall,         \* per caller: the call it runs or has last run
    results,       \* per caller: initialize_from_configs' gather results
    items,         \* per caller: shutdown's instances still to close
    shutdownErrors,\* per caller: shutdown's shutdown_errors (server names)
    entry,         \* per caller: the state it found on entering the lock
    ncalls,        \* number of manager calls made so far
    traced,        \* whether `calls` is kept in this run
    calls,         \* the calls made so far, as a bag (kept when traced)
    contended,     \* whether a call has had to wait for the lock (kept when traced)
    rl,            \* per caller: the locals of its reload_server / reload_all_servers
    mret           \* per caller: what its last reload call returned or raised

reloadVars == <<rl, mret>>

mgrVars == <<servers, mconfigs, initialized, mlock, inst, mpc, mcall, results,
             items, shutdownErrors, entry, ncalls, traced, calls, contended,
             reloadVars>>

VARIABLES
    nconstruct,    \* number of times MCPManager(...) was called after the first
    lastRef,       \* the object the latest MCPManager(...) evaluated to
    paramsManager  \* MCPManager._params_manager

singletonVars == <<nconstruct, lastRef, paramsManager>>

VARIABLES
    request        \* the UpsertLLMModelRequest upsert_model is handling or has last handled

usecaseVars == <<request>>

VARIABLES
    selections,    \* the tool selections _attach_requested_tools is handed
    fetches,       \* the calls of get_mcp_toolkit it has made, in order
    attached,      \* the toolkits it has added to the agent, in order
    aret           \* how it ended: "none" (not run yet), "returned" or an error

attachVars == <<selections, fetches, attached, aret>>

VARIABLES
    settings,      \* the MCPSettings get_default_params was called under
    payload,       \* the entries of the servers document it loads
    defaultParams  \* what the call gave: nothing yet, a list, or an error

paramsVars == <<settings, payload, defaultParams>>

VARIABLES
    buildConfig,     \* the LLMModelConfig build_model was called with
    buildOverrides,  \* the overrides it was called with
    secretEnv,       \* the environment variable named by the configuration
    builtModel       \* what the call gave: nothing yet, a handle, or an error

providerVars == <<buildConfig, buildOverrides, secretEnv, builtModel>>

VARIABLES
    toolkit        \* the MCPToolkit a caller obtained and keeps: <<>> or <<t>>

toolkitVars == <<toolkit>>

VARIABLES
    syscall        \* per caller: its initialize_system call, and what it returned

systemVars == <<syscall>>

pureVars == <<paramsVars, providerVars, toolkitVars, systemVars>>

otherVars == <<singletonVars, usecaseVars, attachVars, pureVars>>

vars == <<storeVars, mgrVars, otherVars>>

(***************************************************************************)
(* Bounds                                                                  *)
(***************************************************************************)
\* longest batch handed to upsert_configs
MaxBatch == 2
\* number of store operations called after construction
MaxOps == 3
\* longest descriptor list handed to initialize_from_configs
MaxConfigs == 2
\* number of manager calls
MaxCalls == 3
\* in the runs that keep the bag of calls: the longest descriptor list and
\* the number of calls
MaxRaceConfigs == 1
MaxRaceCalls == 4
MaxConstructs == 2
\* longest list of tool selections
MaxSelections == 3
\* longest servers document
MaxEntries == 2
\* number of reload_functions calls on one toolkit
MaxReloads == 2

Threads == {"t1", "t2"}

\* coroutines calling the manager on the one event loop
Callers == {"a", "b", "c"}

(***************************************************************************)
(* Data: model configurations and the two files                            *)
(***************************************************************************)
\* a field a raw dict does not carry
Missing == "<missing>"

DefaultKey == "openai:gpt-4o-mini"
OllamaKey == "ollama:llama3.1"

\* `metadata: dict[str, Any]` as the Python value it is: a dict of a string,
\* of a list, or of a tuple
MetaName == "{'display_name': 'x'}"
MetaList == "{'tags': ['a']}"
MetaTuple == "{'tags': ('a',)}"

\* model_dump_json then json.loads: JSON has one array type, so a tuple comes
\* back as a list; strings and lists come back as they were
JsonValue(v) == IF v = MetaTuple THEN MetaList ELSE v

\* config_store.py _DEFAULT_MODELS: the second entry carries no api_key_env
DEFAULT_MODELS ==
    << [key |-> DefaultKey, provider |-> "openai", model_id |-> "gpt-4o-mini",
        api_key_env |-> "OPENAI_API_KEY", metadata |-> MetaName],
       [key |-> OllamaKey, provider |-> "ollama", model_id |-> "llama3.1",
        api_key_env |-> Missing, metadata |-> MetaName] >>

DEFAULT_ACTIVE_KEY == DEFAULT_MODELS[1].key

\* str.strip() on the strings of the model
Strip(s) ==
    CASE s = " k2 " -> "k2"
      [] s = " s1 " -> "s1"
      [] s = " read " -> "read"
      [] s = " key " -> "key"
      [] s = " "    -> ""
      [] OTHER      -> s

\* '=' in value, on the strings of the model
HasEq(s) == s = "A=B"

\* a validation that lets everything through
AnyItem(item) == TRUE

\* LLMModelConfig(**item): every str field present and of length >= 1
\* (str_min_length), api_key_env neither blank nor holding '='
ValidItem(item) ==
    /\ \A f \in {"key", "provider", "model_id", "api_key_env"} :
          item[f] # Missing /\ item[f] # ""
    /\ Strip(item.api_key_env) # ""
    /\ ~HasEq(item.api_key_env)

\* The configurations callers hand to the store.  Two of them share the key
\* "k1" and differ in the other attributes, one of the two holding a tuple in
\* its metadata; one key is padded with blanks.
C_k1a == [key |-> "k1", provider |-> "openai", model_id |-> "m1", api_key_env |-> "ENV_A",
          metadata |-> MetaList]
C_k1b == [key |-> "k1", provider |-> "ollama", model_id |-> "m2", api_key_env |-> "ENV_B",
          metadata |-> MetaTuple]
C_pad == [key |-> " k2 ", provider |-> "openai", model_id |-> "m1", api_key_env |-> "ENV_A",
          metadata |-> MetaName]
C_def == [key |-> DefaultKey, provider |-> "openai", model_id |-> "gpt-4o-mini",
          api_key_env |-> "OPENAI_API_KEY", metadata |-> MetaName]

InputConfigs == {C_k1a, C_k1b, C_pad}

\* "k9" is the key of no configuration
InputKeys == {DefaultKey, "k1", " k2 ", "k9"}

RECURSIVE SeqsUpTo(_, _)
SeqsUpTo(S, n) ==
    IF n = 0 THEN {<<>>}
    ELSE LET shorter == SeqsUpTo(S, n - 1)
         IN shorter \cup {Append(s, x) : s \in {q \in shorter : Len(q) = n - 1}, x \in S}

\* upsert_configs is handed batches over the two configurations that share a key
Batches == SeqsUpTo({C_k1a, C_k1b}, MaxBatch)

KeysOf(configs) == {configs[i].key : i \in DOMAIN configs}

NoResult == [kind |-> "none", key |-> "", configs |-> <<>>]
Ok(k, cs) == [kind |-> "ok", key |-> k, configs |-> cs]
Raised(kind, k) == [kind |-> kind, key |-> k, configs |-> <<>>]

NoCall == [op |-> "none", key |-> "", configs |-> <<>>]

(***************************************************************************)
(* ModelConfigStore: pure parts                                            *)
(***************************************************************************)
AbsentModels == [state |-> "absent", models |-> <<>>]
BlankModels == [state |-> "blank", models |-> <<>>]
MalformedModels == [state |-> "malformed", models |-> <<>>]

\* LLMModelRegistryFile(models=...).model_dump_json(): {"models": [...]},
\* one JSON object per configuration, every field written
DumpRegistry(configs) ==
    [state |-> "json",
     models |-> [i \in DOMAIN configs |->
                    [key |-> configs[i].key, provider |-> configs[i].provider,
                     model_id |-> configs[i].model_id,
                     api_key_env |-> configs[i].api_key_env,
                     metadata |-> JsonValue(configs[i].metadata)]]]

\* _write_default_models builds LLMModelConfig(**cfg) for every default before
\* it writes anything: one invalid default and it raises, nothing written
DefaultModelsValid == \A i \in DOMAIN DEFAULT_MODELS : ValidItem(DEFAULT_MODELS[i])

WriteDefaultModels(file) ==
    IF DefaultModelsValid THEN DumpRegistry(DEFAULT_MODELS) ELSE file

\* _read_models_file: what it returns (raw dicts) or raises
ReadModelsFile(file) ==
    CASE file.state = "absent" ->
            IF DefaultModelsValid THEN Ok("", DEFAULT_MODELS)
            ELSE Raised("ValidationError", "")
      [] file.state = "blank" -> Ok("", DEFAULT_MODELS)
      [] file.state = "malformed" -> Raised("ValueError", "")
      [] OTHER -> Ok("", file.models)

\* _read_models_file: the registry file it leaves behind
ModelsFileAfterRead(file) ==
    IF file.state = "absent" THEN WriteDefaultModels(file) ELSE file

\* list_configs: LLMModelConfig(**item) for every raw item, in file order
ListConfigs(file) ==
    LET raw == ReadModelsFile(file)
    IN IF raw.kind # "ok" THEN raw
       ELSE IF \E i \in DOMAIN raw.configs : ~ValidItem(raw.configs[i])
            THEN Raised("ValidationError", "")
            ELSE Ok("", raw.configs)

\* NotFoundError(detail=..., i18n_key=..., i18n_params={"key": key}):
\* BaseAppException.__init__ takes detail, status_code, headers, i18n_key and
\* context only, so the keyword i18n_params makes the constructor itself raise
NotFoundError(k) == Raised("TypeError", "")

\* get_config: the first configuration of list_configs() whose key is k
GetConfig(file, k) ==
    LET listed == ListConfigs(file)
    IN IF listed.kind # "ok" THEN listed
       ELSE LET hits == {i \in DOMAIN listed.configs : listed.configs[i].key = k}
            IN IF hits = {} THEN NotFoundError(k)
               ELSE Ok(k, << listed.configs[CHOOSE i \in hits : \A j \in hits : i <= j] >>)

\* upsert_config: {item.key: item for item in list_configs()}, then
\* existing[config.key] = config, then existing.values().  A dict keeps a key
\* at the place of its first insertion and the value of its last.
RECURSIVE DictFromSeq(_)
DictFromSeq(configs) ==
    IF configs = <<>> THEN <<>>
    ELSE LET n == Len(configs)
             front == DictFromSeq(SubSeq(configs, 1, n - 1))
             last == configs[n]
         IN IF \E i \in DOMAIN front : front[i].key = last.key
            THEN [i \in DOMAIN front |->
                     IF front[i].key = last.key THEN last ELSE front[i]]
            ELSE Append(front, last)

\* dict.setdefault in place of the assignment: a key already there keeps its
\* value
DictSetDefault(dict, config) ==
    IF \E i \in DOMAIN dict : dict[i].key = config.key THEN dict
    ELSE Append(dict, config)

DictSet(dict, config) == DictFromSeq(Append(dict, config))

\* get_active_model_key on an existing pointer file: raw.strip() or the default
ActiveKeyOfText(text) ==
    IF Strip(text) = "" THEN DEFAULT_ACTIVE_KEY ELSE Strip(text)

\* threading.Lock: granted only when nobody holds it, the caller included
CanAcquire(t) == lock = "free"

(***************************************************************************)
(* ModelConfigStore: operations.  Every `with self._lock` block is one     *)
(* step; a block entered while the lock is held waits at "wak_acquire".    *)
(***************************************************************************)
StoreIdle(t) == constructed /\ pc[t] = "idle" /\ ops < MaxOps

Begin(t, op, k, cs) ==
    /\ call' = [call EXCEPT ![t] = [op |-> op, key |-> k, configs |-> cs]]
    /\ ops' = ops + 1

Finish(t, r) ==
    /\ pc' = [pc EXCEPT ![t] = "idle"]
    /\ ret' = [ret EXCEPT ![t] = r]

\* __init__ -> _ensure_files: under the lock, seed the registry file, then call
\* _write_active_key (which takes the lock itself) when the pointer is absent
Construct(t) ==
    /\ UNCHANGED <<mgrVars, otherVars>>
    /\ pc[t] = "ctor"
    /\ CanAcquire(t)
    /\ UNCHANGED <<call, existing, activeFile, ops>>
    /\ IF modelsFile.state = "absent" /\ ~DefaultModelsValid
       THEN /\ pc' = [pc EXCEPT ![t] = "failed"]
            /\ ret' = [ret EXCEPT ![t] = Raised("ValidationError", "")]
            /\ UNCHANGED <<modelsFile, lock, constructed>>
       ELSE /\ modelsFile' = ModelsFileAfterRead(modelsFile)
            /\ IF ~activeFile.exists
               THEN /\ lock' = t
                    /\ pc' = [pc EXCEPT ![t] = "wak_acquire"]
                    /\ UNCHANGED <<ret, constructed>>
               ELSE /\ constructed' = TRUE
                    /\ Finish(t, Ok("", <<>>))
                    /\ UNCHANGED lock

\* _write_active_key: takes the lock, writes the pointer file; then the caller
\* goes on (set_active_model_key returns, get_active_model_key returns the
\* default, _ensure_files returns) and every lock held is released
WriteActiveKey(t) ==
    /\ UNCHANGED <<mgrVars, otherVars>>
    /\ pc[t] = "wak_acquire"
    /\ CanAcquire(t)
    /\ activeFile' = [exists |-> TRUE,
                      text |-> IF call[t].op = "set_active_model_key"
                               THEN call[t].key ELSE DEFAULT_ACTIVE_KEY]
    /\ lock' = "free"
    /\ constructed' = (constructed \/ call[t].op = "construct")
    /\ Finish(t, IF call[t].op = "get_active_model_key"
                 THEN Ok(DEFAULT_ACTIVE_KEY, <<>>) ELSE Ok("", <<>>))
    /\ UNCHANGED <<modelsFile, call, existing, ops>>

ListConfigsCall(t) ==
    /\ UNCHANGED <<mgrVars, otherVars>>
    /\ StoreIdle(t)
    /\ CanAcquire(t)
    /\ Begin(t, "list_configs", "", <<>>)
    /\ modelsFile' = ModelsFileAfterRead(modelsFile)
    /\ Finish(t, ListConfigs(modelsFile))
    /\ UNCHANGED <<activeFile, lock, constructed, existing>>

GetConfigCall(t, k) ==
    /\ UNCHANGED <<mgrVars, otherVars>>
    /\ StoreIdle(t)
    /\ CanAcquire(t)
    /\ Begin(t, "get_config", k, <<>>)
    /\ modelsFile' = ModelsFileAfterRead(modelsFile)
    /\ Finish(t, GetConfig(modelsFile, k))
    /\ UNCHANGED <<activeFile, lock, constructed, existing>>

\* get_active_model_key: an absent pointer file sends it into
\* _write_active_key with the lock held
GetActiveModelKey(t) ==
    /\ UNCHANGED <<mgrVars, otherVars>>
    /\ StoreIdle(t)
    /\ CanAcquire(t)
    /\ Begin(t, "get_active_model_key", "", <<>>)
    /\ UNCHANGED <<modelsFile, activeFile, constructed, existing>>
    /\ IF ~activeFile.exists
       THEN /\ lock' = t
            /\ pc' = [pc EXCEPT ![t] = "wak_acquire"]
            /\ UNCHANGED ret
       ELSE /\ Finish(t, Ok(ActiveKeyOfText(activeFile.text), <<>>))
            /\ UNCHANGED lock

\* set_active_model_key, first half: _ = self.get_config(key)
SetActiveModelKey(t, k) ==
    /\ UNCHANGED <<mgrVars, otherVars>>
    /\ StoreIdle(t)
    /\ CanAcquire(t)
    /\ Begin(t, "set_active_model_key", k, <<>>)
    /\ modelsFile' = ModelsFileAfterRead(modelsFile)
    /\ UNCHANGED <<activeFile, lock, constructed, existing>>
    /\ LET found == GetConfig(modelsFile, k)
       IN IF found.kind # "ok"
          THEN Finish(t, found)
          ELSE /\ pc' = [pc EXCEPT ![t] = "wak_acquire"]
               /\ UNCHANGED ret

\* _write_configs: the registry file becomes exactly the configurations given
WriteConfigs(configs) == DumpRegistry(configs)

\* upsert_configs: self._write_configs(configs)
UpsertConfigs(t, batch) ==
    /\ UNCHANGED <<mgrVars, otherVars>>
    /\ StoreIdle(t)
    /\ CanAcquire(t)
    /\ Begin(t, "upsert_configs", "", batch)
    /\ modelsFile' = WriteConfigs(batch)
    /\ Finish(t, Ok("", <<>>))
    /\ UNCHANGED <<activeFile, lock, constructed, existing>>

\* upsert_config, first half: existing = {item.key: item for item in
\* self.list_configs()} (the lock is held for the file read only)
UpsertConfigRead(t, c) ==
    /\ UNCHANGED <<mgrVars, otherVars>>
    /\ StoreIdle(t)
    /\ CanAcquire(t)
    /\ Begin(t, "upsert_config", c.key, <<c>>)
    /\ modelsFile' = ModelsFileAfterRead(modelsFile)
    /\ UNCHANGED <<activeFile, lock, constructed>>
    /\ LET listed == ListConfigs(modelsFile)
       IN IF listed.kind # "ok"
          THEN /\ Finish(t, listed)
               /\ UNCHANGED existing
          ELSE /\ existing' = [existing EXCEPT ![t] = DictFromSeq(listed.configs)]
               /\ pc' = [pc EXCEPT ![t] = "uc_write"]
               /\ UNCHANGED ret

\* upsert_config, second half: existing[config.key] = config;
\* self._write_configs(existing.values())
UpsertConfigWrite(t) ==
    /\ UNCHANGED <<mgrVars, otherVars>>
    /\ pc[t] = "uc_write"
    /\ CanAcquire(t)
    /\ modelsFile' = WriteConfigs(DictSet(existing[t], call[t].configs[1]))
    /\ Finish(t, Ok("", <<>>))
    /\ UNCHANGED <<activeFile, lock, constructed, call, existing, ops>>


(***************************************************************************)
(* MCPManager: data                                                        *)
(***************************************************************************)
\* MCPServerParams as far as the manager reads it.  `command` stands for what
\* the start primitive (MCPTools(...).__aenter__) does with it: it returns,
\* raises an Exception, or ends in asyncio.CancelledError (a BaseException).
D_s1 == [name |-> "s1", enabled |-> TRUE, command |-> "ok", args |-> "old.js",
    description |-> "one"]
D_s2 == [name |-> "s2", enabled |-> TRUE, command |-> "ok", args |-> "old.js",
    description |-> "two"]
D_s2bad == [name |-> "s2", enabled |-> TRUE, command |-> "raise", args |-> "old.js",
    description |-> "two bad"]
D_s2cancel == [name |-> "s2", enabled |-> TRUE, command |-> "cancel", args |-> "old.js",
    description |-> ""]
D_s2off == [name |-> "s2", enabled |-> FALSE, command |-> "ok", args |-> "old.js",
    description |-> "two off"]

Descriptors == {D_s1, D_s2, D_s2bad, D_s2cancel, D_s2off}

DistinctNames(configs) ==
    \A i \in DOMAIN configs, j \in DOMAIN configs :
        configs[i].name = configs[j].name => i = j

ConfigLists == SeqsUpTo(Descriptors, MaxConfigs)

RaceConfigLists == SeqsUpTo({D_s1, D_s2bad, D_s2cancel}, MaxRaceConfigs)

NoServers == [n \in {} |-> 0]

NoEntry == [names |-> {}, ids |-> {}, initialized |-> FALSE, entered |-> FALSE]

NoMCall == [op |-> "none", configs |-> <<>>]

\* no reload in progress; nothing returned yet
NoReload == [name |-> "", todo |-> <<>>, old |-> <<>>, outcomes |-> <<>>]
NoReturn == [kind |-> "none", server_name |-> "", success |-> FALSE,
             reloaded_count |-> 0, failed_count |-> 0, results |-> <<>>]

\* the first MCPManager(): the object, and the params manager it keeps
SingletonFresh ==
    /\ nconstruct = 0
    /\ lastRef = "m1"
    /\ paramsManager = "default"

\* what the specifications that do not use them hold the other variables at
NoRequest == [config |-> <<>>, set_active |-> FALSE]

\* _attach_requested_tools has not run
AttachFresh == fetches = <<>> /\ attached = <<>> /\ aret = "none"

\* initialize_system has not been called
NoSysCall == [stage |-> "none", given |-> <<>>, at |-> 0, value |-> "none"]

\* no call of get_default_params or build_model has been made
NotCalled == [kind |-> "none"]

NoSettings == [enable_mcp_system |-> FALSE, enabled_servers |-> <<>>]

NoEnv == [set |-> FALSE, value |-> ""]

PureParked ==
    /\ settings = NoSettings
    /\ payload = <<>>
    /\ defaultParams = NotCalled
    /\ buildConfig = <<>>
    /\ buildOverrides = <<>>
    /\ secretEnv = NoEnv
    /\ builtModel = NotCalled
    /\ toolkit = <<>>
    /\ syscall = [c \in Callers |-> NoSysCall]

OtherParked ==
    /\ SingletonFresh
    /\ request = NoRequest
    /\ selections = <<>>
    /\ AttachFresh
    /\ PureParked

\* MCPManager.__init__
MgrFresh ==
    /\ servers = NoServers
    /\ mconfigs = <<>>
    /\ initialized = FALSE
    /\ mlock = [holder |-> "none", waiters |-> <<>>]
    /\ inst = <<>>
    /\ mpc = [c \in Callers |-> "idle"]
    /\ mcall = [c \in Callers |-> NoMCall]
    /\ results = [c \in Callers |-> <<>>]
    /\ items = [c \in Callers |-> {}]
    /\ shutdownErrors = [c \in Callers |-> {}]
    /\ entry = [c \in Callers |-> NoEntry]
    /\ ncalls = 0
    /\ calls = [x \in {} |-> 0]
    /\ contended = FALSE
    /\ rl = [c \in Callers |-> NoReload]
    /\ mret = [c \in Callers |-> NoReturn]

(***************************************************************************)
(* The files the store is constructed over: absent, or left by an earlier  *)
(* run with the pointer naming a registry entry                            *)
(***************************************************************************)
InitRegistries == { <<C_def>>, <<C_def, C_k1a>> }

InitFiles ==
    {<<AbsentModels, [exists |-> FALSE, text |-> ""]>>,
     <<BlankModels, [exists |-> TRUE, text |-> DefaultKey]>>,
     <<MalformedModels, [exists |-> TRUE, text |-> DefaultKey]>>}
    \cup {<<DumpRegistry(r), [exists |-> FALSE, text |-> ""]>> : r \in InitRegistries}
    \cup {<<DumpRegistry(r), [exists |-> TRUE, text |-> ""]>> : r \in InitRegistries}
    \cup {<<DumpRegistry(r), [exists |-> TRUE, text |-> k]>> :
             r \in InitRegistries, k \in {DefaultKey}}

StoreInit ==
    /\ \E f \in InitFiles : modelsFile = f[1] /\ activeFile = f[2]
    /\ lock = "free"
    /\ constructed = FALSE
    /\ pc = [t \in Threads |-> IF t = "t1" THEN "ctor" ELSE "idle"]
    /\ call = [t \in Threads |->
                 IF t = "t1" THEN [op |-> "construct", key |-> "", configs |-> <<>>]
                 ELSE NoCall]
    /\ existing = [t \in Threads |-> <<>>]
    /\ ret = [t \in Threads |-> NoResult]
    /\ ops = 0
    /\ MgrFresh
    /\ traced = FALSE
    /\ OtherParked

StoreNext ==
    \E t \in Threads :
        \/ Construct(t)
        \/ WriteActiveKey(t)
        \/ ListConfigsCall(t)
        \/ \E k \in InputKeys : GetConfigCall(t, k)
        \/ GetActiveModelKey(t)
        \/ \E k \in InputKeys : SetActiveModelKey(t, k)
        \/ \E batch \in Batches : UpsertConfigs(t, batch)
        \/ \E c \in InputConfigs : UpsertConfigRead(t, c)
        \/ UpsertConfigWrite(t)

StoreSpec == StoreInit /\ [][StoreNext]_vars

\* every thread that can take a step eventually takes one
StoreFairSpec == StoreSpec /\ \A t \in Threads : WF_vars(Construct(t) \/ WriteActiveKey(t) \/ UpsertConfigWrite(t))

(***************************************************************************)
(* ModelConfigStore: claims                                                *)
(***************************************************************************)
AllIdle == \A t \in Threads : pc[t] = "idle"

\* the keys list_configs() returns (none when it raises)
ListedKeys(file) ==
    IF ListConfigs(file).kind = "ok" THEN KeysOf(ListConfigs(file).configs) ELSE {}

\* get_active_model_key() returns the key of a configuration list_configs() returns
ActiveResolves ==
    /\ activeFile.exists
    /\ ActiveKeyOfText(activeFile.text) \in ListedKeys(modelsFile)

\* t's upsert_config returns in this step
UpsertReturns(t) == pc[t] = "uc_write" /\ pc'[t] = "idle"

\* get_config(c.key) returns c
Holds(file, c) == GetConfig(file, c.key) = Ok(c.key, <<c>>)

\* C2: after any sequence of store operations the key get_active_model_key()
\* returns is the key of a configuration list_configs() returns: no operation
\* of a constructed store takes the pointer from resolving to dangling.
C2_ActiveKeyResolves ==
    [][(constructed /\ ActiveResolves) => ActiveResolves']_vars

\* C3: two concurrent upsert_config calls with different keys leave both
\* configurations in the registry: when one call returns while the other
\* thread's upserted configuration is in the registry, the registry holds
\* both afterwards (no lost update).
C3_NoLostUpdate ==
    [][\A t \in Threads, u \in Threads :
          ( /\ t # u
            /\ UpsertReturns(t)
            /\ pc[u] = "idle" /\ call[u].op = "upsert_config" /\ ret[u].kind = "ok"
            /\ call[u].key # call[t].key
            /\ Holds(modelsFile, call[u].configs[1]) )
          => ( /\ Holds(modelsFile', call[u].configs[1])
               /\ Holds(modelsFile', call[t].configs[1]) )]_vars

\* C4: construction or get_active_model_key() over an absent pointer file
\* completes: the caller never waits for the store lock while holding it
\* itself, and once it has returned the lock is free and the pointer file
\* holds the default key.
C4_AbsentPointerSelfHeals ==
    \A t \in Threads :
        call[t].op \in {"construct", "get_active_model_key"} =>
            /\ ~(pc[t] = "wak_acquire" /\ lock = t)
            /\ (pc[t] = "idle" /\ ret[t].kind = "ok") =>
                   (lock = "free" /\ activeFile.exists)

\* every value of c is one JSON gives back as it was
JsonNative(c) == JsonValue(c.metadata) = c.metadata

\* C7 as stated: when upsert_config(c) returns, get_config(c.key) returns a
\* configuration equal to c in every attribute, for any valid c and whatever
\* the registry held.
C7_UpsertThenGetAny ==
    [][\A t \in Threads :
          UpsertReturns(t) => Holds(modelsFile', call[t].configs[1])]_vars

\* C7 amended: when upsert_config(c) returns for a valid c whose free-form
\* values are JSON-native, get_config(c.key) returns a configuration equal to
\* c in every attribute, also over an entry of the same key and other values.
C7_UpsertThenGet ==
    [][\A t \in Threads :
          (UpsertReturns(t) /\ JsonNative(call[t].configs[1]))
          => Holds(modelsFile', call[t].configs[1])]_vars

\* C7 witness: an upsert_config has returned over a registry that held the
\* key with other attribute values, and get_config returns the new ones
C7_Witness ==
    \E t \in Threads :
        /\ pc[t] = "idle" /\ call[t].op = "upsert_config" /\ ret[t].kind = "ok"
        /\ \E i \in DOMAIN existing[t] :
              /\ existing[t][i].key = call[t].key
              /\ existing[t][i] # call[t].configs[1]
        /\ JsonNative(call[t].configs[1])
        /\ Holds(modelsFile, call[t].configs[1])

\* t calls set_active_model_key in this step, with a key that no listed
\* configuration carries
SetActiveOfUnknownKey(t) ==
    /\ pc[t] = "idle"
    /\ ops' = ops + 1
    /\ call'[t].op = "set_active_model_key"
    /\ ListConfigs(modelsFile).kind = "ok"
    /\ call'[t].key \notin ListedKeys(modelsFile)

\* C8: set_active_model_key(k) with k the key of no registry entry fails with
\* a not-found error carrying k and leaves the active key as it was.
C8_SetActiveUnknownKey ==
    [][\A t \in Threads :
          SetActiveOfUnknownKey(t) =>
              /\ pc'[t] = "idle"
              /\ ret'[t].kind = "NotFoundError"
              /\ ret'[t].key = call'[t].key
              /\ activeFile' = activeFile]_vars

\* C9: a key present in the registry stays present after every later
\* upsert_config, upsert_configs or set_active_model_key call.
C9_KeysNeverRemoved ==
    [][constructed => ListedKeys(modelsFile) \subseteq ListedKeys(modelsFile')]_vars

\* C10: the registry holds at most one entry per key, also after
\* upsert_configs was given a batch in which a key occurs more than once.
C10_KeysUnique ==
    \A i \in DOMAIN modelsFile.models, j \in DOMAIN modelsFile.models :
        modelsFile.models[i].key = modelsFile.models[j].key => i = j

\* t's construction or list_configs() runs in this step over a registry file
\* that does not exist
SeedsAbsentRegistry(t) ==
    /\ modelsFile.state = "absent"
    /\ \/ pc[t] = "ctor" /\ pc'[t] # "ctor"
       \/ pc[t] = "idle" /\ ops' = ops + 1 /\ call'[t].op = "list_configs"

\* C11: the first access to a store whose registry file does not exist
\* (construction, then list_configs()) yields exactly the two built-in
\* defaults, of providers openai and ollama, each accepted by the
\* configuration model's validation, and leaves the registry file holding them.
C11_DefaultsSeeded ==
    [][\A t \in Threads :
          SeedsAbsentRegistry(t) =>
              /\ pc'[t] # "failed"
              /\ \A i \in DOMAIN DEFAULT_MODELS : ValidItem(DEFAULT_MODELS[i])
              /\ modelsFile' = DumpRegistry(DEFAULT_MODELS)
              /\ {DEFAULT_MODELS[i].provider : i \in DOMAIN DEFAULT_MODELS} = {"openai", "ollama"}
              /\ (call'[t].op = "list_configs") => (ret'[t] = Ok("", DEFAULT_MODELS))]_vars

(***************************************************************************)
(* MCPManager: operations.  One step runs a coroutine from one suspension  *)
(* point (lock wait, gather, __aenter__, __aexit__) to the next.           *)
(***************************************************************************)
\* the store while the manager runs: constructed over a one-entry registry
StoreParked ==
    /\ modelsFile = DumpRegistry(<<C_def>>)
    /\ activeFile = [exists |-> TRUE, text |-> DefaultKey]
    /\ lock = "free"
    /\ constructed = TRUE
    /\ pc = [t \in Threads |-> "idle"]
    /\ call = [t \in Threads |-> NoCall]
    /\ existing = [t \in Threads |-> <<>>]
    /\ ret = [t \in Threads |-> NoResult]
    /\ ops = 0

IsEnabled(d) == d.enabled

\* enabled_configs = [config for config in configs if config.enabled]
EnabledConfigs(configs) == SelectSeq(configs, IsEnabled)

\* what awaiting MCPTools(command=...).__aenter__() ends in
StartOutcome(d) ==
    CASE d.command = "ok" -> "ok"
      [] d.command = "raise" -> "error"
      [] OTHER -> "cancelled"

\* isinstance(result, Exception): CancelledError is no Exception
IsException(result) == result = "error"

\* success_count of initialize_from_configs
SuccessCount(rs) == Cardinality({i \in DOMAIN rs : ~IsException(rs[i])})

\* a manager whose operations never wait for the lock
LockIgnored == TRUE

\* asyncio.Lock.acquire returns at once only when the lock is neither held
\* nor waited for
LockIsFree == mlock.holder = "none" /\ mlock.waiters = <<>>

\* a lock that is never given back
NeverReleased(lk) == lk

\* `async with self._lock` is left: the lock is unlocked, the waiters stay
\* queued and the first of them is woken
Released(lk) == [lk EXCEPT !.holder = "none"]

\* the coroutine returns; its locals are gone
MReturn(c) ==
    /\ mpc' = [mpc EXCEPT ![c] = "idle"]
    /\ mcall' = [mcall EXCEPT ![c] = NoMCall]
    /\ results' = [results EXCEPT ![c] = <<>>]
    /\ items' = [items EXCEPT ![c] = {}]
    /\ shutdownErrors' = [shutdownErrors EXCEPT ![c] = {}]
    /\ entry' = [entry EXCEPT ![c] = NoEntry]

\* list(self._servers.items()): the instances shutdown's loop goes through
ShutdownItems == {servers[n] : n \in DOMAIN servers}

EntryState == [names |-> DOMAIN servers, ids |-> ShutdownItems,
               initialized |-> initialized, entered |-> TRUE]

\* an initialize_from_configs that never skips
NeverSkips == FALSE

\* `if self._initialized and self._servers`: the repeat call is skipped
AlreadyInitialised == initialized /\ DOMAIN servers # {}

\* initialize_from_configs inside the lock, up to `await asyncio.gather`
InitEnter(c, configs, lk) ==
    /\ UNCHANGED <<servers, initialized, inst>>
    /\ IF AlreadyInitialised
       THEN /\ MReturn(c)
            /\ mlock' = Released(lk)
            /\ UNCHANGED mconfigs
       ELSE /\ mconfigs' = configs
            /\ IF EnabledConfigs(configs) = <<>>
               THEN /\ MReturn(c)
                    /\ mlock' = Released(lk)
               ELSE /\ mpc' = [mpc EXCEPT ![c] = "gather"]
                    /\ mcall' = [mcall EXCEPT ![c] =
                          [op |-> "initialize_from_configs", configs |-> configs]]
                    /\ mlock' = [lk EXCEPT !.holder = c]
                    /\ results' = [results EXCEPT ![c] =
                          [i \in DOMAIN EnabledConfigs(configs) |-> "pending"]]
                    /\ entry' = [entry EXCEPT ![c] = EntryState]
                    /\ UNCHANGED <<items, shutdownErrors>>

\* shutdown inside the lock, up to the first close
ShutdownEnter(c, lk) ==
    /\ mpc' = [mpc EXCEPT ![c] = "closing"]
    /\ mcall' = [mcall EXCEPT ![c] = [op |-> "shutdown", configs |-> <<>>]]
    /\ mlock' = [lk EXCEPT !.holder = c]
    /\ items' = [items EXCEPT ![c] = ShutdownItems]
    /\ shutdownErrors' = [shutdownErrors EXCEPT ![c] = {}]
    /\ entry' = [entry EXCEPT ![c] = EntryState]
    /\ UNCHANGED <<servers, mconfigs, initialized, inst, results>>

BagAdd(bag, x) ==
    [y \in DOMAIN bag \cup {x} |-> IF y \in DOMAIN bag
                                   THEN bag[y] + (IF y = x THEN 1 ELSE 0)
                                   ELSE 1]

NewCall(c, op, configs) ==
    /\ mpc[c] = "idle"
    /\ ncalls < (IF traced THEN MaxRaceCalls ELSE MaxCalls)
    /\ ncalls' = ncalls + 1
    /\ calls' = IF traced THEN BagAdd(calls, [op |-> op, configs |-> configs]) ELSE calls
    /\ UNCHANGED traced

\* the caller suspends in asyncio.Lock.acquire, last in the queue
Enqueue(c, op, configs) ==
    /\ mlock' = [mlock EXCEPT !.waiters = Append(@, c)]
    /\ mpc' = [mpc EXCEPT ![c] = "wait_lock"]
    /\ mcall' = [mcall EXCEPT ![c] = [op |-> op, configs |-> configs]]
    /\ UNCHANGED <<servers, mconfigs, initialized, inst, results, items,
                   shutdownErrors, entry>>

\* initialize_from_configs(configs) is called
InitializeFromConfigs(c, configs) ==
    /\ UNCHANGED <<storeVars, reloadVars, otherVars>>
    /\ NewCall(c, "initialize_from_configs", configs)
    /\ contended' = (contended \/ (traced /\ ~LockIsFree))
    /\ IF LockIsFree
       THEN InitEnter(c, configs, mlock)
       ELSE Enqueue(c, "initialize_from_configs", configs)

\* a shutdown without its early return
NoEarlyReturn == FALSE

\* the check shutdown makes before it asks for the lock:
\* `if not self._initialized or not self._servers: return`
NothingToShutDown == ~initialized \/ DOMAIN servers = {}

\* shutdown() is called
Shutdown(c) ==
    /\ UNCHANGED <<storeVars, reloadVars, otherVars>>
    /\ NewCall(c, "shutdown", <<>>)
    /\ contended' = (contended \/ (traced /\ ~NothingToShutDown /\ ~LockIsFree))
    /\ IF NothingToShutDown
       THEN /\ MReturn(c)
            /\ UNCHANGED <<servers, mconfigs, initialized, mlock, inst>>
       ELSE IF LockIsFree
            THEN ShutdownEnter(c, mlock)
            ELSE Enqueue(c, "shutdown", <<>>)

\* the first waiter gets the released lock
LockGranted(c) ==
    /\ UNCHANGED <<storeVars, reloadVars, otherVars>>
    /\ mpc[c] = "wait_lock"
    /\ mlock.holder = "none"
    /\ mlock.waiters # <<>> /\ Head(mlock.waiters) = c
    /\ mcall[c].op \in {"initialize_from_configs", "shutdown"}
    /\ UNCHANGED <<ncalls, traced, calls, contended>>
    /\ LET rest == [mlock EXCEPT !.waiters = Tail(@)]
       IN IF mcall[c].op = "shutdown"
          THEN ShutdownEnter(c, rest)
          ELSE InitEnter(c, mcall[c].configs, rest)

\* mcp_tools.functions: the names of the functions the server of that name
\* exposes once it has started
ServerFunctions(name) == IF name = "s1" THEN {"read", "Read"} ELSE {"write"}

\* the instance `MCPTools(**mcp_kwargs)` once `__aenter__` has returned
StartedInstance(d) ==
    [name |-> d.name, closes |-> 0, raised |-> FALSE,
     functions |-> ServerFunctions(d.name)]

\* a start that forgets to store its instance
StoreServerNever(srv, name, id) == srv

\* self._servers[config.name] = mcp_tools
StoreServer(srv, name, id) ==
    [n \in DOMAIN srv \cup {name} |-> IF n = name THEN id ELSE srv[n]]

\* _initialise_single_server for the i-th enabled descriptor runs to its end:
\* `await mcp_tools.__aenter__()` returns and the instance is stored under
\* config.name, or it raises and nothing is stored
StartCompletes(c, i) ==
    /\ UNCHANGED <<storeVars, reloadVars, otherVars>>
    /\ mpc[c] = "gather"
    /\ i \in DOMAIN results[c]
    /\ results[c][i] = "pending"
    /\ LET d == EnabledConfigs(mcall[c].configs)[i]
           outcome == StartOutcome(d)
       IN /\ results' = [results EXCEPT ![c][i] = outcome]
          /\ IF outcome = "ok"
             THEN /\ inst' = Append(inst, StartedInstance(d))
                  /\ servers' = StoreServer(servers, d.name, Len(inst) + 1)
             ELSE UNCHANGED <<inst, servers>>
    /\ UNCHANGED <<mconfigs, initialized, mlock, mpc, mcall, items,
                   shutdownErrors, entry, ncalls, traced, calls, contended>>

\* gather has returned: count the results, set the flag, leave the lock
InitFinish(c) ==
    /\ UNCHANGED <<storeVars, reloadVars, otherVars>>
    /\ mpc[c] = "gather"
    /\ \A i \in DOMAIN results[c] : results[c][i] # "pending"
    /\ initialized' = (initialized \/ SuccessCount(results[c]) > 0)
    /\ mlock' = Released(mlock)
    /\ MReturn(c)
    /\ UNCHANGED <<servers, mconfigs, inst, ncalls, traced, calls, contended>>

\* a shutdown loop that a raising close ends
ShutdownCloseAborting(c, id, raises) ==
    /\ UNCHANGED <<storeVars, reloadVars, otherVars>>
    /\ mpc[c] = "closing"
    /\ id \in items[c]
    /\ inst' = [inst EXCEPT ![id].closes = @ + 1, ![id].raised = raises]
    /\ items' = [items EXCEPT ![c] = IF raises THEN {} ELSE @ \ {id}]
    /\ shutdownErrors' = [shutdownErrors EXCEPT ![c] =
                             IF raises THEN @ \cup {inst[id].name} ELSE @]
    /\ UNCHANGED <<servers, mconfigs, initialized, mlock, mpc, mcall, results,
                   entry, ncalls, traced, calls, contended>>

\* one pass of shutdown's loop: `await tools.__aexit__(None, None, None)`;
\* an Exception it raises is noted and swallowed
ShutdownClose(c, id, raises) ==
    /\ UNCHANGED <<storeVars, reloadVars, otherVars>>
    /\ mpc[c] = "closing"
    /\ id \in items[c]
    /\ inst' = [inst EXCEPT ![id].closes = @ + 1, ![id].raised = raises]
    /\ items' = [items EXCEPT ![c] = @ \ {id}]
    /\ shutdownErrors' = [shutdownErrors EXCEPT ![c] =
                             IF raises THEN @ \cup {inst[id].name} ELSE @]
    /\ UNCHANGED <<servers, mconfigs, initialized, mlock, mpc, mcall, results,
                   entry, ncalls, traced, calls, contended>>

\* after the loop: self._servers.clear(); self._configs = [];
\* self._initialized = False; the lock is left
ShutdownFinish(c) ==
    /\ UNCHANGED <<storeVars, reloadVars, otherVars>>
    /\ mpc[c] = "closing"
    /\ items[c] = {}
    /\ servers' = NoServers
    /\ mconfigs' = <<>>
    /\ initialized' = FALSE
    /\ mlock' = Released(mlock)
    /\ MReturn(c)
    /\ UNCHANGED <<inst, ncalls, traced, calls, contended>>

MgrInit == MgrFresh /\ StoreParked /\ OtherParked /\ traced = FALSE

MgrNext ==
    \E c \in Callers \ {"c"} :
        \/ \E configs \in ConfigLists : InitializeFromConfigs(c, configs)
        \/ Shutdown(c)
        \/ LockGranted(c)
        \/ \E i \in 1..MaxConfigs : StartCompletes(c, i)
        \/ InitFinish(c)
        \/ \E id \in DOMAIN inst, raises \in BOOLEAN : ShutdownClose(c, id, raises)
        \/ ShutdownFinish(c)

MgrSpec == MgrInit /\ [][MgrNext]_vars

\* the manager under calls over short descriptor lists, the bag of calls kept
MgrRaceInit == MgrFresh /\ StoreParked /\ OtherParked /\ traced = TRUE

MgrRaceNext ==
    \E c \in Callers :
        \/ \E configs \in RaceConfigLists : InitializeFromConfigs(c, configs)
        \/ Shutdown(c)
        \/ LockGranted(c)
        \/ \E i \in 1..MaxRaceConfigs : StartCompletes(c, i)
        \/ InitFinish(c)
        \/ \E id \in DOMAIN inst, raises \in BOOLEAN : ShutdownClose(c, id, raises)
        \/ ShutdownFinish(c)

MgrRaceSpec == MgrRaceInit /\ [][MgrRaceNext]_vars

(***************************************************************************)
(* MCPManager: reload_server and reload_all_servers.  manager.py holds     *)
(* neither; they are modelled from the design text (sections 4.3, 7), on   *)
(* the lock, the start primitive and the exception classes of the source.  *)
(***************************************************************************)
D_s1new == [name |-> "s1", enabled |-> TRUE, command |-> "ok", args |-> "new.js",
    description |-> "one new"]
D_s1off == [name |-> "s1", enabled |-> FALSE, command |-> "ok", args |-> "old.js",
    description |-> ""]

ReloadDescriptors == {D_s1new, D_s1off, D_s2, D_s2bad}

ServerNames == {"s1", "s2"}

\* get_default_params collapses duplicate names: a batch names a server once
ReloadBatches == {b \in SeqsUpTo(ReloadDescriptors, MaxConfigs) : DistinctNames(b)}

ReloadInitLists == {<<D_s1>>, <<D_s2>>, <<D_s1, D_s2>>}

\* the keyword arguments BaseAppException.__init__ takes
BaseAppExceptionKwargs == {"detail", "status_code", "headers", "i18n_key", "context"}

\* every exception class handing up i18n_params
ExceptionKwargsWithParams(kind) ==
    {"detail", "status_code", "i18n_key", "i18n_params", "context"}

\* the keyword arguments each exception class hands up to it
ExceptionKwargs(kind) ==
    IF kind = "MCPNoServersAvailableError"
    THEN {"detail", "status_code", "i18n_key"}
    ELSE {"detail", "status_code", "i18n_key", "i18n_params", "context"}

\* `raise <kind>(server_name, ...)`: what reaches the caller.  A keyword the
\* base constructor does not take makes the construction raise TypeError.
RaiseMCP(kind, name) ==
    IF ExceptionKwargs(kind) \subseteq BaseAppExceptionKwargs
    THEN [NoReturn EXCEPT !.kind = kind, !.server_name = name]
    ELSE [NoReturn EXCEPT !.kind = "TypeError"]

\* the descriptor of the batch named name, none as <<>>
FindDescriptor(batch, name) ==
    LET hits == {i \in DOMAIN batch : batch[i].name = name}
    IN IF hits = {} THEN <<>>
       ELSE << batch[CHOOSE i \in hits : \A j \in hits : i <= j] >>

\* a tracked list that only ever grows
AlwaysAppend(list, d) == Append(list, d)

\* the tracked list with d in the place of the descriptor of its name,
\* appended when there is none
ReplaceOrAppend(list, d) ==
    IF \E i \in DOMAIN list : list[i].name = d.name
    THEN [i \in DOMAIN list |-> IF list[i].name = d.name THEN d ELSE list[i]]
    ELSE Append(list, d)

DropServer(srv, name) == [n \in DOMAIN srv \ {name} |-> srv[n]]

NamesOf(configs) == {configs[i].name : i \in DOMAIN configs}

\* the reload call returns or raises r; the call and its result stay with
\* the caller
RReturn(c, name, r) ==
    /\ mpc' = [mpc EXCEPT ![c] = "idle"]
    /\ mret' = [mret EXCEPT ![c] = r]
    /\ rl' = [rl EXCEPT ![c] = [NoReload EXCEPT !.name = name]]

\* the caller lets go of the result of its reload call
DropResult(c) ==
    /\ UNCHANGED <<storeVars, otherVars>>
    /\ mpc[c] = "idle"
    /\ mret[c] # NoReturn
    /\ mret' = [mret EXCEPT ![c] = NoReturn]
    /\ rl' = [rl EXCEPT ![c] = NoReload]
    /\ mcall' = [mcall EXCEPT ![c] = NoMCall]
    /\ UNCHANGED <<servers, mconfigs, initialized, mlock, inst, mpc, results,
                   items, shutdownErrors, entry, ncalls, traced, calls, contended>>

\* the instance running under name when the reload reaches it, and how often
\* it had been closed by then; none as <<>>
OldInstance(name) ==
    IF name \in DOMAIN servers
    THEN << [id |-> servers[name], closes |-> inst[servers[name]].closes] >>
    ELSE <<>>

\* reload_server inside the lock: the descriptor is looked up and checked
\* before any running process is touched
ReloadServerEnter(c, name, batch, lk) ==
    LET found == FindDescriptor(batch, name)
    IN /\ UNCHANGED <<servers, mconfigs, initialized, inst>>
       /\ mcall' = [mcall EXCEPT ![c] = [op |-> "reload_server", configs |-> batch]]
       /\ IF found = <<>>
          THEN /\ RReturn(c, name, RaiseMCP("MCPServerNotFoundError", name))
               /\ mlock' = Released(lk)
          ELSE IF ~found[1].enabled
          THEN /\ RReturn(c, name, RaiseMCP("MCPServerDisabledError", name))
               /\ mlock' = Released(lk)
          ELSE /\ mpc' = [mpc EXCEPT ![c] =
                             IF name \in DOMAIN servers THEN "rs_teardown" ELSE "rs_start"]
               /\ rl' = [rl EXCEPT ![c] = [NoReload EXCEPT !.name = name, !.todo = found,
                                                            !.old = OldInstance(name)]]
               /\ mlock' = [lk EXCEPT !.holder = c]
               /\ UNCHANGED mret

\* reload_server(name) is called; batch is what get_default_params() returns
ReloadServer(c, name, batch) ==
    /\ UNCHANGED <<storeVars, otherVars, results, items, shutdownErrors, entry, contended>>
    /\ mret[c] = NoReturn
    /\ NewCall(c, "reload_server", batch)
    /\ IF LockIsFree
       THEN ReloadServerEnter(c, name, batch, mlock)
       ELSE /\ mlock' = [mlock EXCEPT !.waiters = Append(@, c)]
            /\ mpc' = [mpc EXCEPT ![c] = "wait_lock"]
            /\ mcall' = [mcall EXCEPT ![c] = [op |-> "reload_server", configs |-> batch]]
            /\ rl' = [rl EXCEPT ![c] = [NoReload EXCEPT !.name = name]]
            /\ UNCHANGED <<servers, mconfigs, initialized, inst, mret>>

\* a reload that leaves the old instance running
ReloadServerNoTeardown(c, raises) ==
    /\ UNCHANGED <<storeVars, otherVars>>
    /\ mpc[c] = "rs_teardown"
    /\ mpc' = [mpc EXCEPT ![c] = "rs_start"]
    /\ UNCHANGED <<servers, mconfigs, initialized, mlock, inst, mcall, results, items,
                   shutdownErrors, entry, ncalls, traced, calls, contended, reloadVars>>

\* the old instance under the name is torn down, a failure tolerated
ReloadServerTeardown(c, raises) ==
    /\ UNCHANGED <<storeVars, otherVars>>
    /\ mpc[c] = "rs_teardown"
    /\ inst' = [inst EXCEPT ![servers[rl[c].name]].closes = @ + 1,
                            ![servers[rl[c].name]].raised = raises]
    /\ mpc' = [mpc EXCEPT ![c] = "rs_start"]
    /\ UNCHANGED <<servers, mconfigs, initialized, mlock, mcall, results, items,
                   shutdownErrors, entry, ncalls, traced, calls, contended, reloadVars>>

\* the new instance is started from the refreshed descriptor
ReloadServerStart(c) ==
    /\ UNCHANGED <<storeVars, otherVars>>
    /\ mpc[c] = "rs_start"
    /\ LET d == rl[c].todo[1]
       IN IF StartOutcome(d) = "ok"
          THEN /\ inst' = Append(inst, StartedInstance(d))
               /\ servers' = StoreServer(servers, d.name, Len(inst) + 1)
               /\ mconfigs' = ReplaceOrAppend(mconfigs, d)
               /\ RReturn(c, d.name, [NoReturn EXCEPT !.kind = "ok",
                                   !.server_name = d.name, !.success = TRUE])
          ELSE /\ RReturn(c, d.name, RaiseMCP("MCPServerReloadError", d.name))
               /\ UNCHANGED <<inst, servers, mconfigs>>
    /\ mlock' = Released(mlock)
    /\ UNCHANGED <<initialized, mcall, results, items, shutdownErrors, entry,
                   ncalls, traced, calls, contended>>


\* which await the bulk reload goes to next: the teardown of the running
\* instance of the next descriptor, its start, or the cleanup after the pass
ReloadAllNext(todo, srv) ==
    IF todo = <<>> THEN "ra_cleanup"
    ELSE IF Head(todo).name \in DOMAIN srv THEN "ra_teardown" ELSE "ra_start"

\* the running map when the bulk reload reaches it: each name with its
\* instance and how often that had been closed by then
RunningNow == [n \in DOMAIN servers |-> OldInstance(n)[1]]

\* whether the bulk reload has nothing to reload: `if not enabled_configs`
NothingEnabled(en) == en = <<>>

\* reload_all_servers inside the lock: the enabled descriptors must be some
ReloadAllEnter(c, batch, lk) ==
    LET en == EnabledConfigs(batch)
    IN /\ UNCHANGED <<servers, mconfigs, initialized, inst>>
       /\ mcall' = [mcall EXCEPT ![c] = [op |-> "reload_all_servers", configs |-> batch]]
       /\ IF NothingEnabled(en)
          THEN /\ RReturn(c, "", RaiseMCP("MCPNoServersAvailableError", ""))
               /\ mlock' = Released(lk)
          ELSE /\ mpc' = [mpc EXCEPT ![c] = ReloadAllNext(en, servers)]
               /\ rl' = [rl EXCEPT ![c] = [NoReload EXCEPT !.todo = en,
                                                            !.old = << RunningNow >>]]
               /\ mlock' = [lk EXCEPT !.holder = c]
               /\ UNCHANGED mret

\* reload_all_servers() is called; batch is what get_default_params() returns
ReloadAllServers(c, batch) ==
    /\ UNCHANGED <<storeVars, otherVars, results, items, shutdownErrors, entry, contended>>
    /\ mret[c] = NoReturn
    /\ NewCall(c, "reload_all_servers", batch)
    /\ IF LockIsFree
       THEN ReloadAllEnter(c, batch, mlock)
       ELSE /\ mlock' = [mlock EXCEPT !.waiters = Append(@, c)]
            /\ mpc' = [mpc EXCEPT ![c] = "wait_lock"]
            /\ mcall' = [mcall EXCEPT ![c] = [op |-> "reload_all_servers", configs |-> batch]]
            /\ UNCHANGED <<servers, mconfigs, initialized, inst, reloadVars>>

\* a waiting reload call gets the released lock
ReloadGranted(c) ==
    /\ UNCHANGED <<storeVars, otherVars, results, items, shutdownErrors, entry>>
    /\ mpc[c] = "wait_lock"
    /\ mlock.holder = "none"
    /\ mlock.waiters # <<>> /\ Head(mlock.waiters) = c
    /\ mcall[c].op \in {"reload_server", "reload_all_servers"}
    /\ UNCHANGED <<ncalls, traced, calls, contended>>
    /\ LET rest == [mlock EXCEPT !.waiters = Tail(@)]
       IN IF mcall[c].op = "reload_server"
          THEN ReloadServerEnter(c, rl[c].name, mcall[c].configs, rest)
          ELSE ReloadAllEnter(c, mcall[c].configs, rest)

\* bulk reload, one server: its running instance is torn down (a failure
\* tolerated) and leaves the running map
ReloadAllTeardown(c, raises) ==
    /\ UNCHANGED <<storeVars, otherVars>>
    /\ mpc[c] = "ra_teardown"
    /\ LET n == Head(rl[c].todo).name
       IN /\ inst' = [inst EXCEPT ![servers[n]].closes = @ + 1,
                                  ![servers[n]].raised = raises]
          /\ servers' = DropServer(servers, n)
    /\ mpc' = [mpc EXCEPT ![c] = "ra_start"]
    /\ UNCHANGED <<mconfigs, initialized, mlock, mcall, results, items,
                   shutdownErrors, entry, ncalls, traced, calls, contended, reloadVars>>

\* bulk reload, one server: it is started afresh and its outcome recorded,
\* a failure not stopping the pass
ReloadAllStart(c) ==
    /\ UNCHANGED <<storeVars, otherVars>>
    /\ mpc[c] = "ra_start"
    /\ LET d == Head(rl[c].todo)
           ok == StartOutcome(d) = "ok"
           srv == IF ok THEN StoreServer(servers, d.name, Len(inst) + 1) ELSE servers
       IN /\ inst' = IF ok THEN Append(inst, StartedInstance(d)) ELSE inst
          /\ servers' = srv
          /\ rl' = [rl EXCEPT ![c].todo = Tail(@),
                              ![c].outcomes = Append(@, [server_name |-> d.name,
                                                         success |-> ok])]
          /\ mpc' = [mpc EXCEPT ![c] = ReloadAllNext(Tail(rl[c].todo), srv)]
    /\ UNCHANGED <<mconfigs, initialized, mlock, mcall, results, items,
                   shutdownErrors, entry, ncalls, traced, calls, contended, mret>>

\* a bulk reload without cleanup
NoneRemoved(c) == {}

\* the running servers of the old tracked set that the new enabled set drops
RemovedServers(c) ==
    (NamesOf(mconfigs) \ NamesOf(EnabledConfigs(mcall[c].configs))) \cap DOMAIN servers

\* bulk reload, cleanup: a removed server is torn down and dropped
ReloadAllCleanup(c, n, raises) ==
    /\ UNCHANGED <<storeVars, otherVars>>
    /\ mpc[c] = "ra_cleanup"
    /\ n \in RemovedServers(c)
    /\ inst' = [inst EXCEPT ![servers[n]].closes = @ + 1,
                            ![servers[n]].raised = raises]
    /\ servers' = DropServer(servers, n)
    /\ UNCHANGED <<mconfigs, initialized, mlock, mpc, mcall, results, items,
                   shutdownErrors, entry, ncalls, traced, calls, contended, reloadVars>>

ReloadedCount(outcomes) == Cardinality({i \in DOMAIN outcomes : outcomes[i].success})

\* bulk reload, end: the tracked list becomes the new enabled set and the
\* overall result is returned
ReloadAllFinish(c) ==
    /\ UNCHANGED <<storeVars, otherVars>>
    /\ mpc[c] = "ra_cleanup"
    /\ RemovedServers(c) = {}
    /\ mconfigs' = EnabledConfigs(mcall[c].configs)
    /\ LET os == rl[c].outcomes
       IN RReturn(c, "", [NoReturn EXCEPT !.kind = "ok",
                                          !.success = ReloadedCount(os) >= 1,
                                          !.reloaded_count = ReloadedCount(os),
                                          !.failed_count = Len(os) - ReloadedCount(os),
                                          !.results = os])
    /\ mlock' = Released(mlock)
    /\ UNCHANGED <<servers, initialized, inst, mcall, results, items,
                   shutdownErrors, entry, ncalls, traced, calls, contended>>

ReloadInit == MgrFresh /\ StoreParked /\ OtherParked /\ traced = FALSE

ReloadNext ==
    \E c \in Callers \ {"c"} :
        \/ \E configs \in ReloadInitLists : InitializeFromConfigs(c, configs)
        \/ Shutdown(c)
        \/ LockGranted(c)
        \/ \E i \in 1..MaxConfigs : StartCompletes(c, i)
        \/ InitFinish(c)
        \/ \E id \in DOMAIN inst, raises \in BOOLEAN : ShutdownClose(c, id, raises)
        \/ ShutdownFinish(c)
        \/ \E n \in ServerNames, batch \in ReloadBatches : ReloadServer(c, n, batch)
        \/ \E batch \in ReloadBatches : ReloadAllServers(c, batch)
        \/ ReloadGranted(c)
        \/ \E raises \in BOOLEAN : ReloadServerTeardown(c, raises)
        \/ ReloadServerStart(c)
        \/ \E raises \in BOOLEAN : ReloadAllTeardown(c, raises)
        \/ ReloadAllStart(c)
        \/ \E n \in ServerNames, raises \in BOOLEAN : ReloadAllCleanup(c, n, raises)
        \/ ReloadAllFinish(c)
        \/ DropResult(c)

ReloadSpec == ReloadInit /\ [][ReloadNext]_vars

(***************************************************************************)
(* MCPManager: the calls run one after another                             *)
(***************************************************************************)
ManagerState == [names |-> DOMAIN servers, configs |-> mconfigs,
                 initialized |-> initialized]

FreshManagerState == [names |-> {}, configs |-> <<>>, initialized |-> FALSE]

\* initialize_from_configs run to its end with nothing in between
SerialInitialize(st, configs) ==
    IF st.initialized /\ st.names # {} THEN st
    ELSE LET en == EnabledConfigs(configs)
             rs == [i \in DOMAIN en |-> StartOutcome(en[i])]
         IN IF en = <<>> THEN [st EXCEPT !.configs = configs]
            ELSE [names |-> st.names \cup {en[i].name : i \in {j \in DOMAIN en : rs[j] = "ok"}},
                  configs |-> configs,
                  initialized |-> st.initialized \/ SuccessCount(rs) > 0]

\* shutdown run to its end with nothing in between
SerialShutdown(st) ==
    IF ~st.initialized \/ st.names = {} THEN st
    ELSE [names |-> {}, configs |-> <<>>, initialized |-> FALSE]

SerialCall(st, x) ==
    IF x.op = "shutdown" THEN SerialShutdown(st) ELSE SerialInitialize(st, x.configs)

BagRemove(bag, x) ==
    [y \in {z \in DOMAIN bag : z # x \/ bag[z] > 1} |->
        IF y = x THEN bag[y] - 1 ELSE bag[y]]

\* the manager states the calls of a bag can end in, over every order
RECURSIVE SerialOutcomes(_, _)
SerialOutcomes(st, bag) ==
    IF DOMAIN bag = {} THEN {st}
    ELSE UNION {SerialOutcomes(SerialCall(st, x), BagRemove(bag, x)) : x \in DOMAIN bag}

(***************************************************************************)
(* MCPManager: claims                                                      *)
(***************************************************************************)
\* the names of the enabled descriptors whose start returned
StartedOk(c) ==
    {EnabledConfigs(mcall[c].configs)[i].name :
        i \in {j \in DOMAIN results[c] : results[c][j] = "ok"}}

\* c's initialize_from_configs returns in this step, after its gather
InitReturns(c) == mpc[c] = "gather" /\ mpc'[c] = "idle"

\* c's call returns in the very step that called it or got it the lock
ReturnsAtOnce(c) ==
    /\ mpc'[c] = "idle"
    /\ \/ mpc[c] = "wait_lock"
       \/ mpc[c] = "idle" /\ ncalls' = ncalls + 1 /\ mcall[c] = NoMCall
                          /\ \A o \in Callers \ {c} : mpc'[o] = mpc[o]

\* C1: initialize_from_configs on a manager that is not initialized and runs
\* nothing, given descriptors of distinct names, returns with the running map
\* holding exactly the enabled descriptors whose start succeeded, and with
\* the initialized flag set if and only if there is one.
C1_InitializePartialSuccess ==
    [][\A c \in Callers :
          /\ ( /\ InitReturns(c)
               /\ ~entry[c].initialized /\ entry[c].names = {}
               /\ DistinctNames(mcall[c].configs) )
             => ( /\ DOMAIN servers' = StartedOk(c)
                  /\ initialized' <=> (StartedOk(c) # {}) )
          /\ ( /\ ReturnsAtOnce(c)
               /\ ~initialized /\ DOMAIN servers = {} )
             => ( DOMAIN servers' = {} /\ ~initialized' )]_vars

AllReturned == \A c \in Callers : mpc[c] = "idle"

\* what a shutdown inside the lock acts on is what its check read
ShutdownActsOnWhatItRead ==
    \A c \in Callers :
        mpc[c] = "closing" => (entry[c].initialized /\ entry[c].names # {})

\* the final state is that of the same calls run one after another
SerialOutcome ==
    AllReturned => ManagerState \in SerialOutcomes(FreshManagerState, calls)

\* C5 as stated: every read and write concurrent initialize_from_configs and
\* shutdown calls make of the manager state is serialized by the lock (so a
\* shutdown acts under the lock on the very state its check read), and the
\* final state is that of the calls run one after another in some order.
C5_AllAccessUnderLock == ShutdownActsOnWhatItRead /\ SerialOutcome

\* C5 amended: the final running map, tracked descriptor list and initialized
\* flag are those of the same calls run one after another in some order,
\* although shutdown reads the flag and the map before it takes the lock.
C5_SerialOutcome == SerialOutcome

\* C5 witness: initialize_from_configs and shutdown calls have all returned,
\* one of them after waiting for the lock, and the manager runs a server
C5_Witness ==
    /\ AllReturned
    /\ contended
    /\ \E x \in DOMAIN calls : x.op = "shutdown"
    /\ \E x \in DOMAIN calls : x.op = "initialize_from_configs"
    /\ DOMAIN servers # {}
    /\ initialized

\* c's shutdown returns in this step, after its loop
ShutdownReturns(c) == mpc[c] = "closing" /\ mpc'[c] = "idle"

\* C6: when shutdown() returns on an initialized manager with running
\* servers, every instance that was in the running map has had exactly one
\* close attempted on it, whether or not another close raised, and the
\* running map and the tracked list are empty and the flag is false.
C6_ShutdownClosesAll ==
    [][\A c \in Callers :
          (ShutdownReturns(c) /\ entry[c].initialized /\ entry[c].names # {})
          => ( /\ \A id \in entry[c].ids : inst'[id].closes = 1
               /\ servers' = NoServers
               /\ mconfigs' = <<>>
               /\ ~initialized' )]_vars

\* C6 witness: a shutdown has returned after closing two instances, the
\* close of one of which raised
C6_Witness ==
    /\ AllReturned
    /\ servers = NoServers /\ mconfigs = <<>> /\ ~initialized
    /\ \E i \in DOMAIN inst, j \in DOMAIN inst :
          /\ inst[i].name # inst[j].name
          /\ inst[i].closes = 1 /\ inst[i].raised
          /\ inst[j].closes = 1 /\ ~inst[j].raised

CountOf(bag, x) == IF x \in DOMAIN bag THEN bag[x] ELSE 0

\* an initialize_from_configs call is made in this step
InitIsCalled ==
    \E x \in DOMAIN calls' :
        x.op = "initialize_from_configs" /\ calls'[x] = CountOf(calls, x) + 1

\* a waiting initialize_from_configs gets the lock in this step
InitIsGranted ==
    \E c \in Callers :
        /\ mpc[c] = "wait_lock" /\ mpc'[c] # "wait_lock"
        /\ mcall[c].op = "initialize_from_configs"

\* C12: initialize_from_configs that finds the initialized flag set and a
\* server running when it has the lock starts no server and leaves the
\* running map, the tracked list and the flag as they were, whatever
\* descriptors it is given.
C12_RepeatInitializeIsNoOp ==
    [][( /\ initialized /\ DOMAIN servers # {}
         /\ (InitIsCalled /\ LockIsFree) \/ InitIsGranted )
       => ( /\ servers' = servers /\ inst' = inst
            /\ mconfigs' = mconfigs
            /\ initialized' = initialized
            /\ \A c \in Callers : mpc'[c] = "gather" => mpc[c] = "gather" )]_vars

\* C12 witness: the only calls made are two calls of initialize_from_configs
\* with the same startable descriptor; both have returned and one instance
\* was started
C12_Witness ==
    /\ AllReturned
    /\ DOMAIN calls = {[op |-> "initialize_from_configs", configs |-> <<D_s1>>]}
    /\ calls[[op |-> "initialize_from_configs", configs |-> <<D_s1>>]] = 2
    /\ Len(inst) = 1
    /\ initialized /\ DOMAIN servers = {D_s1.name} /\ mconfigs = <<D_s1>>

ShutdownCall == [op |-> "shutdown", configs |-> <<>>]

\* shutdown() is called in this step
ShutdownIsCalled == CountOf(calls', ShutdownCall) = CountOf(calls, ShutdownCall) + 1

\* C13: shutdown() called while the initialized flag is not set (a manager
\* never initialized included) closes nothing, returns at once without
\* raising, and leaves the running map, the tracked list and the flag as
\* they were.
C13_ShutdownUninitializedIsNoOp ==
    [][(ShutdownIsCalled /\ ~initialized)
       => ( /\ servers' = servers /\ inst' = inst
            /\ mconfigs' = mconfigs
            /\ initialized' = initialized
            /\ mpc' = mpc /\ mlock' = mlock )]_vars

\* C13 witness: shutdown() has been called, and nothing else, on a manager
\* never initialized, and has returned
C13_Witness ==
    /\ AllReturned
    /\ DOMAIN calls = {ShutdownCall}
    /\ ManagerState = FreshManagerState
    /\ inst = <<>>

(***************************************************************************)
(* MCPManager: reload of one server and of all servers                     *)
(***************************************************************************)

\* caller c's call of op returns or raises in this step
ReloadReturns(c, op) ==
    /\ mret[c] = NoReturn
    /\ mret'[c] # NoReturn
    /\ mcall'[c].op = op

\* the descriptor the batch of c's returning reload_server has for its name
ReturnedFor(c) == FindDescriptor(mcall'[c].configs, rl'[c].name)

\* C14: reload_server(name) fails with not-found when the fetched batch has no
\* descriptor named name and with disabled when it has one that is not
\* enabled; in both cases nothing is torn down or started and the running
\* map is what it was.
C14_ReloadServerRejects ==
    [][\A c \in Callers :
          (ReloadReturns(c, "reload_server")
             /\ (ReturnedFor(c) = <<>> \/ ~ReturnedFor(c)[1].enabled))
          => /\ mret'[c].kind = (IF ReturnedFor(c) = <<>>
                                 THEN "MCPServerNotFoundError"
                                 ELSE "MCPServerDisabledError")
             /\ mret'[c].server_name = rl'[c].name
             /\ servers' = servers
             /\ inst' = inst]_vars

\* caller c's reload_server of a running server returns in this step after a
\* successful start
ReloadsRunning(c) ==
    /\ ReloadReturns(c, "reload_server")
    /\ mpc[c] = "rs_start"
    /\ rl[c].old # <<>>
    /\ StartOutcome(rl[c].todo[1]) = "ok"

\* C15: reload_server(name) for an enabled descriptor with a running instance
\* under name tears the old instance down exactly once before the new one is
\* started, whether or not that teardown fails, and a successful start leaves
\* the running map holding the new instance under name and returns a result
\* record with that server name and success true.
C15_ReloadReplacesRunning ==
    [][\A c \in Callers :
          ReloadsRunning(c)
          => LET name == rl[c].name
                 old == rl[c].old[1]
             IN /\ inst[old.id].closes = old.closes + 1
                /\ inst'[old.id] = inst[old.id]
                /\ name \in DOMAIN servers'
                /\ servers'[name] = Len(inst) + 1
                /\ servers'[name] # old.id
                /\ inst' = Append(inst, StartedInstance(rl[c].todo[1]))
                /\ mret'[c].kind = "ok"
                /\ mret'[c].server_name = name
                /\ mret'[c].success]_vars

\* a reload_server has replaced a running instance whose teardown failed
C15_Witness ==
    \E c \in Callers, id \in DOMAIN inst :
        /\ mret[c].kind = "ok" /\ mret[c].success
        /\ mcall[c].op = "reload_server"
        /\ inst[id].name = mret[c].server_name
        /\ inst[id].raised /\ inst[id].closes = 1
        /\ mret[c].server_name \in DOMAIN servers
        /\ servers[mret[c].server_name] > id
        /\ inst[servers[mret[c].server_name]].closes = 0

\* caller c's reload_server returns in this step after a successful start
ReloadSucceeds(c) ==
    /\ ReloadReturns(c, "reload_server")
    /\ mpc[c] = "rs_start"
    /\ StartOutcome(rl[c].todo[1]) = "ok"

\* the places of the tracked list that hold a descriptor named name
TrackedAt(list, name) == {i \in DOMAIN list : list[i].name = name}

ReloadStartFails(c) ==
    /\ ReloadReturns(c, "reload_server")
    /\ mpc[c] = "rs_start"
    /\ StartOutcome(rl[c].todo[1]) # "ok"

ReloadAllRejected(c) ==
    /\ ReloadReturns(c, "reload_all_servers")
    /\ EnabledConfigs(mcall'[c].configs) = <<>>

ReloadAllReturns(c) ==
    /\ ReloadReturns(c, "reload_all_servers")
    /\ EnabledConfigs(mcall'[c].configs) # <<>>

\* the places of the enabled descriptors en whose start succeeds
StartsOk(en) == {i \in DOMAIN en : StartOutcome(en[i]) = "ok"}

\* the result of c's returning reload_all_servers has one outcome record per
\* enabled descriptor, and its counts and its flag are those of the starts
OutcomesReported(c) ==
    LET en == EnabledConfigs(mcall'[c].configs)
        r == mret'[c]
    IN /\ r.kind = "ok"
       /\ Len(r.results) = Len(en)
       /\ \A i \in DOMAIN en :
             /\ r.results[i].server_name = en[i].name
             /\ r.results[i].success = (i \in StartsOk(en))
       /\ r.reloaded_count = Cardinality(StartsOk(en))
       /\ r.failed_count = Len(en) - Cardinality(StartsOk(en))
       /\ r.reloaded_count + r.failed_count = Len(en)
       /\ r.success = (r.reloaded_count >= 1)

\* the names of the enabled descriptors en whose start succeeds
StartedNames(en) == {en[i].name : i \in StartsOk(en)}

TornDownAndGone(before, n) ==
    /\ n \notin DOMAIN servers'
    /\ n \in DOMAIN before => inst'[before[n].id].closes = before[n].closes + 1

FunctionsOf(id) == [f \in inst[id].functions |-> <<id, f>>]

NoFunctions == [f \in {} |-> <<>>]

\* get_functions_for_server
GetFunctionsForServer(name) ==
    IF name \notin DOMAIN servers THEN NoFunctions ELSE FunctionsOf(servers[name])

\* a status that describes no server
NoDescription(name) == ""

\* _get_server_description: the first tracked descriptor of the name decides
GetServerDescription(name) ==
    LET hits == {i \in DOMAIN mconfigs : mconfigs[i].name = name}
    IN IF hits = {} THEN ""
       ELSE mconfigs[CHOOSE i \in hits : \A j \in hits : i <= j].description

\* get_server_status
GetServerStatus ==
    [n \in DOMAIN servers |->
        [connected |-> TRUE,
         function_count |-> Cardinality(DOMAIN GetFunctionsForServer(n)),
         functions |-> DOMAIN GetFunctionsForServer(n),
         description |-> GetServerDescription(n)]]

\* is_initialized
IsInitialized == initialized /\ DOMAIN servers # {}

RECURSIVE SumFunctionCounts(_, _)
\* sum(info["function_count"] for info in server_status.values())
SumFunctionCounts(status, names) ==
    IF names = {} THEN 0
    ELSE LET n == CHOOSE x \in names : TRUE
         IN status[n].function_count + SumFunctionCounts(status, names \ {n})

\* get_system_status
GetSystemStatus ==
    IF ~IsInitialized
    THEN [initialized |-> FALSE, servers |-> NoServers,
          total_servers |-> 0, total_functions |-> 0]
    ELSE [initialized |-> TRUE, servers |-> GetServerStatus,
          total_servers |-> Cardinality(DOMAIN GetServerStatus),
          total_functions |-> SumFunctionCounts(GetServerStatus, DOMAIN GetServerStatus)]

\* C21: in every reachable state get_system_status() reports initialized
\* false, no servers and zero totals when the manager is not initialized;
\* otherwise one entry per server of the running map with connected true,
\* total_servers the size of the running map, total_functions the sum of the
\* function counts, and each description that of the tracked descriptor of
\* the same name, the empty string when there is none.
C21_SystemStatus ==
    LET st == GetSystemStatus
    IN IF ~initialized
       THEN /\ ~st.initialized
            /\ DOMAIN st.servers = {}
            /\ st.total_servers = 0
            /\ st.total_functions = 0
       ELSE /\ DOMAIN st.servers = DOMAIN servers
            /\ st.total_servers = Cardinality(DOMAIN servers)
            /\ st.total_functions =
                  Cardinality({<<n, f>> \in (DOMAIN servers) \X {"read", "Read", "write"} :
                                  f \in inst[servers[n]].functions})
            /\ \A n \in DOMAIN servers :
                  /\ st.servers[n].connected
                  /\ st.servers[n].function_count =
                        Cardinality(inst[servers[n]].functions)
                  /\ IF \E i \in DOMAIN mconfigs : mconfigs[i].name = n
                     THEN \E i \in DOMAIN mconfigs :
                             /\ mconfigs[i].name = n
                             /\ \A j \in 1..(i - 1) : mconfigs[j].name # n
                             /\ st.servers[n].description = mconfigs[i].description
                     ELSE st.servers[n].description = ""

\* both servers run on an initialised manager: the status counts two servers
\* and three functions and carries their descriptions
C21_Witness ==
    /\ initialized
    /\ DOMAIN servers = {"s1", "s2"}
    /\ GetSystemStatus.total_servers = 2
    /\ GetSystemStatus.total_functions = 3
    /\ GetSystemStatus.servers["s1"].description = "one"
    /\ GetSystemStatus.servers["s2"].description = "two"

\* a toolkit that registers nothing
LoadNothing(id) == NoFunctions

\* MCPToolkit._load_functions: every function of the wrapped instance is
\* registered under its name
LoadFunctions(id) == [f \in DOMAIN FunctionsOf(id) |-> FunctionsOf(id)[f]]

\* MCPToolkit(server_name, mcp_tools)
MCPToolkit(server_name, id) ==
    [server_name |-> server_name,
     name |-> <<"mcp_", server_name>>,
     mcp_tools |-> id,
     functions |-> LoadFunctions(id)]

\* the names a caller may ask for: the two servers and one that never runs
AskedNames == ServerNames \cup {"s3"}

\* get_toolkit_for_server: None as <<>>, a toolkit as a one-element sequence
GetToolkitForServer(server_name) ==
    IF ~initialized THEN <<>>
    ELSE IF server_name \notin DOMAIN servers THEN <<>>
    ELSE << MCPToolkit(server_name, servers[server_name]) >>

\* C22: get_toolkit_for_server(name) returns none whenever the initialized
\* flag is false or name is no key of the running map; otherwise it returns
\* a toolkit whose server name is name and whose functions are those of the
\* instance stored under name.
C22_ToolkitForServer ==
    \A name \in AskedNames :
        LET t == GetToolkitForServer(name)
        IN IF ~initialized \/ name \notin DOMAIN servers
           THEN t = <<>>
           ELSE /\ Len(t) = 1
                /\ t[1].server_name = name
                /\ DOMAIN t[1].functions = inst[servers[name]].functions
                /\ \A f \in DOMAIN t[1].functions :
                      t[1].functions[f] = <<servers[name], f>>

\* a toolkit with the two functions of s1 is handed out while s2 is not
\* running and gets none
C22_Witness ==
    /\ initialized
    /\ DOMAIN servers = {"s1"}
    /\ GetToolkitForServer("s2") = <<>>
    /\ Len(GetToolkitForServer("s1")) = 1
    /\ DOMAIN GetToolkitForServer("s1")[1].functions = {"read", "Read"}

(***************************************************************************)
(* MCPManager(...): construction after the first                           *)
(***************************************************************************)

\* MCPManager._instance once the first construction has run
ClsInstance == "m1"

\* __new__: `if cls._instance is None` makes an object, else the one kept is
\* handed out
New == IF ClsInstance = "none" THEN "fresh" ELSE ClsInstance

\* a class that forgets it was initialised
ClassNeverInitialised == FALSE

\* MCPManager._class_initialised once the first construction has run
ClassInitialised == TRUE

\* MCPManager(params_manager=pm) is evaluated again, at any point of the
\* operations under way: __new__, then __init__, which returns at once when
\* the class is initialised and else sets every attribute anew
ConstructManager(pm) ==
    /\ nconstruct < MaxConstructs
    /\ nconstruct' = nconstruct + 1
    /\ lastRef' = New
    /\ IF ClassInitialised
       THEN UNCHANGED <<paramsManager, servers, mconfigs, mlock, initialized>>
       ELSE /\ paramsManager' = (IF pm = "none" THEN "default" ELSE pm)
            /\ servers' = NoServers
            /\ mconfigs' = <<>>
            /\ mlock' = [holder |-> "none", waiters |-> <<>>]
            /\ initialized' = FALSE
    /\ UNCHANGED <<storeVars, reloadVars, inst, mpc, mcall, results, items,
                   shutdownErrors, entry, ncalls, traced, calls, contended,
                   usecaseVars, attachVars, pureVars>>

SingletonInit == MgrInit

SingletonNext ==
    \/ MgrNext
    \/ \E pm \in {"none", "other"} : ConstructManager(pm)

SingletonSpec == SingletonInit /\ [][SingletonNext]_vars

\* C23: constructing MCPManager again yields the same manager and leaves its
\* running map, tracked descriptor list, initialized flag, lock and params
\* manager exactly as they were, whatever operations ran in between.
C23_ConstructionIdempotent ==
    [][nconstruct' # nconstruct
         => /\ lastRef' = "m1"
            /\ UNCHANGED <<servers, mconfigs, initialized, mlock, paramsManager>>]_vars

\* MCPManager was constructed again twice on a manager that is initialised,
\* runs both servers and whose lock is held
C23_Witness ==
    /\ nconstruct = MaxConstructs
    /\ lastRef = "m1"
    /\ initialized
    /\ DOMAIN servers = {"s1", "s2"}
    /\ mconfigs # <<>>
    /\ mlock.holder # "none"

(***************************************************************************)
(* ModelManagementUsecase.upsert_model.  It is a coroutine without an      *)
(* await: on the event loop its calls run one after another, so one thread *)
(* makes them here.  ConversationAgentFactory.register_model and           *)
(* UpsertLLMModelRequest are called and imported by the source but not     *)
(* defined in it; they follow the specification: the request carries the   *)
(* fields of a configuration and set_active, and registering a model       *)
(* upserts it into the store.                                              *)
(***************************************************************************)
C_noenv == [key |-> "k3", provider |-> "openai", model_id |-> "m1", api_key_env |-> "",
            metadata |-> MetaName]
C_blankenv == [key |-> "k3", provider |-> "openai", model_id |-> "m1", api_key_env |-> " ",
               metadata |-> MetaName]
C_eqenv == [key |-> "k3", provider |-> "openai", model_id |-> "m1", api_key_env |-> "A=B",
            metadata |-> MetaName]

\* the requests: the configuration fields they carry, and set_active
Requests ==
    [config : InputConfigs \cup {C_def, C_noenv, C_blankenv, C_eqenv},
     set_active : BOOLEAN]

\* the thread of the event loop
LoopThread == "t1"

\* register_model(config): the store upserts it.  What the registry file is
\* afterwards and what the call returns or raises.
RegisterModel(file, config) ==
    LET listed == ListConfigs(file)
    IN IF listed.kind # "ok"
       THEN [file |-> ModelsFileAfterRead(file), result |-> listed]
       ELSE [file |-> WriteConfigs(DictSet(DictFromSeq(listed.configs), config)),
             result |-> Ok("", <<>>)]

\* upsert_model, up to and with register_model: LLMModelConfig(...) is built
\* from the request, which validates it, then registered
UpsertModel(req) ==
    /\ UNCHANGED <<mgrVars, singletonVars, attachVars, pureVars>>
    /\ StoreIdle(LoopThread)
    /\ CanAcquire(LoopThread)
    /\ Begin(LoopThread, "upsert_model", req.config.key, <<req.config>>)
    /\ request' = req
    /\ UNCHANGED <<activeFile, lock, constructed, existing>>
    /\ IF ~ValidItem(req.config)
       THEN /\ Finish(LoopThread, Raised("ValidationError", ""))
            /\ UNCHANGED modelsFile
       ELSE LET reg == RegisterModel(modelsFile, req.config)
            IN /\ modelsFile' = reg.file
               /\ IF reg.result.kind # "ok"
                  THEN Finish(LoopThread, reg.result)
                  ELSE IF req.set_active
                  THEN /\ pc' = [pc EXCEPT ![LoopThread] = "um_set_active"]
                       /\ UNCHANGED ret
                  ELSE Finish(LoopThread, Ok(req.config.key, <<req.config>>))

\* upsert_model, `if payload.set_active:
\* self.agent_factory.set_active_model_key(config.key)`, then the descriptor
\* is returned
UpsertModelSetActive ==
    /\ UNCHANGED <<mgrVars, singletonVars, attachVars, pureVars>>
    /\ pc[LoopThread] = "um_set_active"
    /\ CanAcquire(LoopThread)
    /\ UNCHANGED <<modelsFile, lock, constructed, call, existing, ops, request>>
    /\ LET found == GetConfig(modelsFile, request.config.key)
       IN IF found.kind # "ok"
          THEN /\ Finish(LoopThread, found)
               /\ UNCHANGED activeFile
          ELSE /\ activeFile' = [exists |-> TRUE, text |-> request.config.key]
               /\ Finish(LoopThread, Ok(request.config.key, <<request.config>>))

UsecaseInit == MgrFresh /\ StoreParked /\ OtherParked /\ traced = FALSE

UsecaseNext ==
    \/ \E req \in Requests : UpsertModel(req)
    \/ UpsertModelSetActive
    \/ \E k \in InputKeys : SetActiveModelKey(LoopThread, k)
    \/ WriteActiveKey(LoopThread)

UsecaseSpec == UsecaseInit /\ [][UsecaseNext]_vars

\* upsert_model is called in this step
UpsertModelCalled ==
    /\ ops' = ops + 1
    /\ call'[LoopThread].op = "upsert_model"

\* C24: an upsert request whose api_key_env is empty, blank or holds '=' is
\* rejected by validation before the store is asked to write: the registry
\* file and the active pointer are after the rejected request what they were
\* before it.
C24_BadSecretNameRejected ==
    [][(UpsertModelCalled
          /\ (Strip(request'.config.api_key_env) = ""
                \/ HasEq(request'.config.api_key_env)))
         => /\ ret'[LoopThread].kind = "ValidationError"
            /\ pc'[LoopThread] = "idle"
            /\ modelsFile' = modelsFile
            /\ activeFile' = activeFile]_vars

\* a request with '=' in api_key_env and set_active was rejected after two
\* models had been registered
C24_Witness ==
    /\ request = [config |-> C_eqenv, set_active |-> TRUE]
    /\ ret[LoopThread].kind = "ValidationError"
    /\ pc[LoopThread] = "idle"
    /\ Len(modelsFile.models) = 3
    /\ \A i \in DOMAIN modelsFile.models : modelsFile.models[i].key # "k3"

\* upsert_model returns normally in this step
UpsertModelReturns ==
    /\ \/ pc[LoopThread] = "um_set_active"
       \/ UpsertModelCalled
    /\ call'[LoopThread].op = "upsert_model"
    /\ pc'[LoopThread] = "idle"
    /\ ret'[LoopThread].kind = "ok"

\* what get_active_model_key() returns over the pointer file
ActiveKey(file) == IF file.exists THEN ActiveKeyOfText(file.text) ELSE DEFAULT_ACTIVE_KEY

\* C25: upsert_model registers the configuration before it sets the active
\* key, and sets the active key only when set_active is true: with
\* set_active true the active key is afterwards the upserted key, which then
\* resolves in the registry; with set_active false the active key is
\* unchanged.
C25_UpsertThenActivate ==
    [][UpsertModelReturns
         => LET key == request'.config.key
            IN /\ GetConfig(modelsFile', key).kind = "ok"
               /\ IF request'.set_active
                  THEN /\ GetConfig(modelsFile, key).kind = "ok"
                       /\ ActiveKey(activeFile') = key
                       /\ GetConfig(modelsFile', ActiveKey(activeFile')).kind = "ok"
                  ELSE activeFile' = activeFile]_vars

-----------------------------------------------------------------------------
\* ConversationUsecase._attach_requested_tools and the toolkit fetch

\* MCPToolSelection.functions: None, or a list of names
NoList == [given |-> FALSE, names |-> <<>>]

List(names) == [given |-> TRUE, names |-> names]

FunctionLists ==
    {NoList, List(<<>>), List(<<" read ", " ">>), List(<<" ">>),
     List(<<"Read">>)}

SelectionServers == {"s1", " s1 ", "s2", " "}

\* MCPToolSelection(server, functions)
Selections == [server : SelectionServers, functions : FunctionLists]

SelectionLists == UNION {[1..n -> Selections] : n \in 0..MaxSelections}

\* [name for name in cleaned if name]
RECURSIVE NonBlank(_)
NonBlank(names) ==
    IF names = <<>> THEN <<>>
    ELSE (IF Head(names) # "" THEN <<Head(names)>> ELSE <<>>)
         \o NonBlank(Tail(names))

CleanFunctionsAsGiven(functions) == functions

\* the function filter of a selection: None unless a non-empty list was
\* given and a name remains after trimming
CleanFunctions(functions) ==
    IF ~functions.given \/ functions.names = <<>> THEN NoList
    ELSE LET cleaned == [k \in 1..Len(functions.names) |->
                            Strip(functions.names[k])]
             kept == NonBlank(cleaned)
         IN IF kept = <<>> THEN NoList ELSE List(kept)

\* the parameters of get_mcp_toolkit
GetMcpToolkitParams == {"server_name"}

\* a call get_mcp_toolkit(server_name, **keywords): a keyword that is no
\* parameter, or that names the parameter already bound by position, is a
\* TypeError raised before the body runs
GetMcpToolkit(server_name, keywords) ==
    IF DOMAIN keywords \subseteq (GetMcpToolkitParams \ {"server_name"})
    THEN [kind |-> "ok", toolkit |-> GetToolkitForServer(server_name)]
    ELSE [kind |-> "TypeError", toolkit |-> <<>>]

NothingAttached == [fetches |-> <<>>, attached |-> <<>>, aret |-> "none"]

\* the loop of _attach_requested_tools over the selections still to visit;
\* st collects the calls of get_mcp_toolkit, the toolkits added to the
\* agent, and how the loop ended
RECURSIVE AttachLoop(_, _, _)
AttachLoop(sels, seen, st) ==
    IF sels = <<>> THEN [st EXCEPT !.aret = "returned"]
    ELSE
      LET selection == Head(sels)
          server_name == Strip(selection.server)
      IN IF server_name = "" \/ server_name \in seen
         THEN AttachLoop(Tail(sels), seen, st)
         ELSE
           LET functions == CleanFunctions(selection.functions)
               r == GetMcpToolkit(server_name,
                                  [allowed_functions |-> functions])
               st1 == [st EXCEPT !.fetches =
                          Append(@, [server |-> server_name,
                                     allowed_functions |-> functions])]
           IN IF r.kind = "TypeError"
              THEN [st1 EXCEPT !.aret = "TypeError"]
              ELSE IF r.toolkit = <<>>
                      \/ DOMAIN r.toolkit[1].functions = {}
              THEN AttachLoop(Tail(sels), seen \cup {server_name}, st1)
              ELSE AttachLoop(Tail(sels), seen \cup {server_name},
                              [st1 EXCEPT !.attached =
                                  Append(@, r.toolkit[1])])

\* _attach_requested_tools(agent, selections) on a new agent; a behaviour
\* holds one call, since a call keeps nothing for the next one
AttachRequestedTools(sels) ==
    /\ aret = "none"
    /\ LET st == AttachLoop(sels, {}, NothingAttached)
       IN /\ selections' = sels
          /\ fetches' = st.fetches
          /\ attached' = st.attached
          /\ aret' = st.aret
    /\ UNCHANGED <<storeVars, mgrVars, singletonVars, usecaseVars, pureVars>>

AttachInit == MgrFresh /\ StoreParked /\ OtherParked /\ traced = FALSE

AttachNext == \E sels \in SelectionLists : AttachRequestedTools(sels)

AttachSpec == AttachInit /\ [][AttachNext]_vars

\* the distinct trimmed, non-empty server names of a list of selections, in
\* order of first occurrence
RECURSIVE DistinctServers(_, _)
DistinctServers(sels, seen) ==
    IF sels = <<>> THEN <<>>
    ELSE LET n == Strip(Head(sels).server)
         IN IF n = "" \/ n \in seen
            THEN DistinctServers(Tail(sels), seen)
            ELSE <<n>> \o DistinctServers(Tail(sels), seen \cup {n})

\* C26: for any list of tool selections, _attach_requested_tools makes
\* exactly one toolkit fetch per distinct trimmed, non-empty server name, in
\* order of first occurrence.
C26_OneFetchPerServer ==
    aret # "none" =>
        [k \in 1..Len(fetches) |-> fetches[k].server]
            = DistinctServers(selections, {})

\* the selection that decides the fetch for server name n: the first one
\* whose trimmed server name is n
FirstSelectionFor(n) ==
    selections[CHOOSE k \in 1..Len(selections) :
                  /\ Strip(selections[k].server) = n
                  /\ \A j \in 1..(k - 1) : Strip(selections[j].server) # n]

\* C27: for each selection that is fetched, the function filter passed to
\* the toolkit fetch is the selection's function names trimmed, with blank
\* names removed and order kept; when no name remains, or no list was given,
\* the fetch is made with no function filter and never with an empty list.
C27_FilterCleaned ==
    \A k \in 1..Len(fetches) :
        LET given == FirstSelectionFor(fetches[k].server).functions
            trimmed == [j \in 1..Len(given.names) |-> Strip(given.names[j])]
            kept == SelectSeq(trimmed, LAMBDA x : x # "")
            passed == fetches[k].allowed_functions
        IN /\ passed # List(<<>>)
           /\ IF ~given.given \/ kept = <<>>
              THEN passed = NoList
              ELSE passed = List(kept)

\* a fetch for s1 was made with the filter <<"read">> cleaned from a list
\* with a padded name and a blank one
C27_Witness ==
    /\ Len(fetches) >= 1
    /\ fetches[1].server = "s1"
    /\ selections[1].functions = List(<<" read ", " ">>)
    /\ fetches[1].allowed_functions = List(<<"read">>)

\* MCPToolkit.get_server_info
GetServerInfo(t) ==
    [server_name |-> t.server_name,
     toolkit_name |-> t.name,
     function_count |-> Cardinality(DOMAIN t.functions),
     functions |-> DOMAIN t.functions]

\* the allow-lists a caller asks with: a name of s1, a name that differs in
\* case only together with a name no server has, and names of both servers
AllowLists == {<<"read">>, <<"Read", "nope">>, <<"write", "read">>}

NamesIn(L) == {L[k] : k \in 1..Len(L)}

\* C28: a toolkit obtained for a running server with an allow-list L of
\* function names exposes exactly the server's functions whose names are in
\* L, and a toolkit obtained without an allow-list exposes all of the
\* server's functions; its reported function count equals the number of
\* functions it exposes.
C28_AllowListFilters ==
    initialized =>
      \A name \in DOMAIN servers :
        LET all == inst[servers[name]].functions
            plain == GetMcpToolkit(name, <<>>)
        IN /\ plain.kind = "ok"
           /\ Len(plain.toolkit) = 1
           /\ DOMAIN plain.toolkit[1].functions = all
           /\ GetServerInfo(plain.toolkit[1]).function_count
                 = Cardinality(all)
           /\ \A L \in AllowLists :
                LET r == GetMcpToolkit(name,
                                       [allowed_functions |-> List(L)])
                IN /\ r.kind = "ok"
                   /\ Len(r.toolkit) = 1
                   /\ DOMAIN r.toolkit[1].functions = all \cap NamesIn(L)
                   /\ GetServerInfo(r.toolkit[1]).function_count
                         = Cardinality(all \cap NamesIn(L))

-----------------------------------------------------------------------------
\* MCPParamsManager.get_default_params

\* the fields MCPSettings declares
MCPSettingsFields ==
    {"enable_mcp_system", "npx_command", "base_path", "node_env",
     "timeout_seconds", "enabled_servers", "brave_api_key",
     "postgres_database_url"}

\* settings.npx_command, here the launcher of a Windows host
NpxCommand == "npx.cmd"

\* str.lower() on the strings of the model
Lower(s) == IF s = "S1" THEN "s1" ELSE s

\* _parse_enabled_servers on a list: items stripped, blank ones dropped,
\* the rest lower-cased
RECURSIVE ParseEnabledServers(_)
ParseEnabledServers(value) ==
    IF value = <<>> THEN <<>>
    ELSE (IF Strip(Head(value)) # ""
          THEN << Lower(Strip(Head(value))) >> ELSE <<>>)
         \o ParseEnabledServers(Tail(value))

\* MCP_ENABLED_SERVERS as given
EnabledServersGiven == {<<>>, <<" s1 ">>, <<"S1", " ", "s2">>}

\* MCPSettings(...) once validated
SettingsSet ==
    {[enable_mcp_system |-> e, enabled_servers |-> ParseEnabledServers(v)] :
        e \in BOOLEAN, v \in EnabledServersGiven}

\* is_server_enabled(name)
IsServerEnabled(st, name) ==
    /\ st.enable_mcp_system
    /\ \E k \in 1..Len(st.enabled_servers) :
          st.enabled_servers[k] = Lower(name)

\* an entry of the servers document; enabled is "absent" when the entry
\* declares no flag
Entries ==
    [name : {"s1", "S1", "s2", ""},
     command : {"npx a", " "},
     args : {NoList, List(<<"b">>)},
     enabled : {"absent", "true", "false"}]

Documents == UNION {[1..n -> Entries] : n \in 0..MaxEntries}

\* _create_params_from_dict: None as <<>>, a descriptor as a one-element
\* sequence
CreateParamsFromDict(st, data) ==
    LET name == Strip(data.name)
    IN IF name = "" THEN <<>>
       ELSE IF Strip(data.command) = "" THEN <<>>
       ELSE << [name |-> name,
                command |-> data.command,
                args |-> data.args,
                enabled |-> /\ data.enabled # "false"
                            /\ IsServerEnabled(st, name)] >>

\* _load_servers_payload starts by reading settings.servers_config_file;
\* reading an attribute the settings class does not declare raises
\* AttributeError
LoadServersPayload(doc) ==
    IF "servers_config_file" \in MCPSettingsFields
    THEN [kind |-> "ok", value |-> doc]
    ELSE [kind |-> "AttributeError", value |-> <<>>]

RECURSIVE CreateAll(_, _)
CreateAll(st, entries) ==
    IF entries = <<>> THEN <<>>
    ELSE CreateParamsFromDict(st, Head(entries))
         \o CreateAll(st, Tail(entries))

\* _load_configured_params
LoadConfiguredParams(st, doc) ==
    LET loaded == LoadServersPayload(doc)
    IN IF loaded.kind # "ok" THEN loaded
       ELSE [kind |-> "ok", value |-> CreateAll(st, loaded.value)]

\* deduped[item.name] = item for every item, then deduped.values(): a name
\* keeps the place of its first item and the value of its last
RECURSIVE DedupByName(_, _)
DedupByName(deduped, configs) ==
    IF configs = <<>> THEN deduped
    ELSE LET item == Head(configs)
             next == IF \E k \in 1..Len(deduped) : deduped[k].name = item.name
                     THEN [k \in 1..Len(deduped) |->
                              IF deduped[k].name = item.name
                              THEN item ELSE deduped[k]]
                     ELSE Append(deduped, item)
         IN DedupByName(next, Tail(configs))

\* get_platform_command: the first "npx" of the command becomes the
\* configured launcher
GetPlatformCommand(base_cmd) ==
    IF base_cmd = "npx a" THEN "npx.cmd a" ELSE base_cmd

\* the command rewriting at the end of get_default_params
PlatformParams(config) ==
    IF config.args.given /\ config.args.names # <<>>
    THEN [config EXCEPT !.command = NpxCommand]
    ELSE [config EXCEPT !.command = GetPlatformCommand(config.command)]

\* get_default_params()
GetDefaultParams(st, doc) ==
    IF ~st.enable_mcp_system THEN [kind |-> "ok", value |-> <<>>]
    ELSE LET loaded == LoadConfiguredParams(st, doc)
         IN IF loaded.kind # "ok" THEN loaded
            ELSE LET configs == DedupByName(<<>>, loaded.value)
                 IN [kind |-> "ok",
                     value |-> [k \in 1..Len(configs) |->
                                   PlatformParams(configs[k])]]

\* a call of get_default_params under settings st and document doc; a
\* behaviour holds one call
CallGetDefaultParams(st, doc) ==
    /\ defaultParams = NotCalled
    /\ settings' = st
    /\ payload' = doc
    /\ defaultParams' = GetDefaultParams(st, doc)
    /\ UNCHANGED <<storeVars, mgrVars, singletonVars, usecaseVars,
                   attachVars, providerVars, toolkitVars, systemVars>>

ParamsInit == MgrFresh /\ StoreParked /\ OtherParked /\ traced = FALSE

ParamsNext ==
    \E st \in SettingsSet, doc \in Documents : CallGetDefaultParams(st, doc)

ParamsSpec == ParamsInit /\ [][ParamsNext]_vars

\* the declared flag of the entry a descriptor comes from: the last entry
\* of the document with the descriptor's name
DeclaredFlag(name) ==
    LET last == CHOOSE k \in 1..Len(payload) :
                    /\ Strip(payload[k].name) = name
                    /\ Strip(payload[k].command) # ""
                    /\ \A j \in (k + 1)..Len(payload) :
                          ~ /\ Strip(payload[j].name) = name
                            /\ Strip(payload[j].command) # ""
    IN payload[last].enabled # "false"

\* C29: get_default_params() returns a list of descriptors, each of which
\* has enabled true if and only if its entry's own declared flag (default
\* true) is true and its name is a member of the globally-enabled server
\* allow-list; when the tool-server subsystem is globally disabled no
\* descriptor is returned at all.
C29_EnabledIsFlagAndAllowed ==
    defaultParams # NotCalled =>
        /\ defaultParams.kind = "ok"
        /\ ~settings.enable_mcp_system => defaultParams.value = <<>>
        /\ \A k \in 1..Len(defaultParams.value) :
              LET d == defaultParams.value[k]
              IN d.enabled <=>
                    /\ DeclaredFlag(d.name)
                    /\ \E j \in 1..Len(settings.enabled_servers) :
                          settings.enabled_servers[j] = d.name

-----------------------------------------------------------------------------
\* build_model and the provider builders

\* the parameter names of the model: the built-in ones and one more
ParamNames == {"id", "api_key", "base_url", "host", "temperature"}

\* a dict with every key of names mapped to value
Dicts(value) == UNION {[names -> {value}] : names \in SUBSET ParamNames}

\* base_url: None or a string
NoUrl == [set |-> FALSE, value |-> ""]

BuildConfigs ==
    [provider : {"openai", "ollama", "together"},
     model_id : {"m1"},
     api_key_env : {"ENV"},
     base_url : {NoUrl, [set |-> TRUE, value |-> "http://h"]},
     default_params : Dicts("default")]

\* the environment variable: unset, blank, or a key with blanks around it
SecretEnvs == {NoEnv, [set |-> TRUE, value |-> " "],
               [set |-> TRUE, value |-> " key "]}

\* settings.get_secret(name) with strip left at its default
GetSecret(env) ==
    IF ~env.set THEN NoEnv ELSE [set |-> TRUE, value |-> Strip(env.value)]

UpdateKeepingOld(params, other) ==
    [k \in DOMAIN params \cup DOMAIN other |->
        IF k \in DOMAIN params THEN params[k] ELSE other[k]]

\* params.update(other)
Update(params, other) ==
    [k \in DOMAIN params \cup DOMAIN other |->
        IF k \in DOMAIN other THEN other[k] ELSE params[k]]

\* `raise <kind>(provider=..., ...)`: what reaches the caller
RaiseLLM(kind) ==
    IF ExceptionKwargs(kind) \subseteq BaseAppExceptionKwargs
    THEN [kind |-> kind]
    ELSE [kind |-> "TypeError"]

\* _build_openai_model; the handle is the class and the keyword arguments
\* its constructor is given
BuildOpenaiModel(config, overrides, env) ==
    LET api_key == GetSecret(env)
    IN IF ~api_key.set \/ api_key.value = ""
       THEN RaiseLLM("LLMProviderNotConfiguredError")
       ELSE
         LET required == [k \in {"id", "api_key"} |->
                             IF k = "id" THEN config.model_id
                             ELSE api_key.value]
             params == IF config.base_url.set
                       THEN Update(required,
                                   [k \in {"base_url"} |->
                                       config.base_url.value])
                       ELSE required
         IN [kind |-> "ok", cls |-> "OpenAIChat",
             params |-> Update(Update(params, config.default_params),
                               overrides)]

\* _build_ollama_model
BuildOllamaModel(config, overrides) ==
    LET required == [k \in {"id"} |-> config.model_id]
        params == IF config.base_url.set
                  THEN Update(required,
                              [k \in {"host"} |-> config.base_url.value])
                  ELSE required
    IN [kind |-> "ok", cls |-> "Ollama",
        params |-> Update(Update(params, config.default_params), overrides)]

\* build_model(config, overrides)
BuildModel(config, overrides, env) ==
    IF config.provider = "openai"
    THEN BuildOpenaiModel(config, overrides, env)
    ELSE IF config.provider = "ollama"
    THEN BuildOllamaModel(config, overrides)
    ELSE RaiseLLM("LLMProviderUnsupportedError")

\* a call of build_model; a behaviour holds one call
CallBuildModel(config, overrides, env) ==
    /\ builtModel = NotCalled
    /\ buildConfig' = config
    /\ buildOverrides' = overrides
    /\ secretEnv' = env
    /\ builtModel' = BuildModel(config, overrides, env)
    /\ UNCHANGED <<storeVars, mgrVars, singletonVars, usecaseVars,
                   attachVars, paramsVars, toolkitVars, systemVars>>

ProviderInit == MgrFresh /\ StoreParked /\ OtherParked /\ traced = FALSE

ProviderNext ==
    \E config \in BuildConfigs, overrides \in Dicts("override"),
       env \in SecretEnvs :
        CallBuildModel(config, overrides, env)

ProviderSpec == ProviderInit /\ [][ProviderNext]_vars

\* the built-in fields of the handle built from buildConfig: the model id,
\* for openai the resolved secret, and the base URL when one is set
BuiltIn ==
    LET url == IF buildConfig.provider = "openai" THEN "base_url" ELSE "host"
        names == {"id"}
                 \cup (IF buildConfig.provider = "openai"
                       THEN {"api_key"} ELSE {})
                 \cup (IF buildConfig.base_url.set THEN {url} ELSE {})
    IN [k \in names |->
           IF k = "id" THEN buildConfig.model_id
           ELSE IF k = "api_key" THEN Strip(secretEnv.value)
           ELSE buildConfig.base_url.value]

-----------------------------------------------------------------------------
\* MCPManager: the running map over whole runs of initialize_from_configs
\* and shutdown

\* the instances on which close has been invoked
Closed == {id \in DOMAIN inst : inst[id].closes > 0}

\* the instances the running map holds
Held == {servers[n] : n \in DOMAIN servers}

\* C33: a get_toolkit_for_server or get_system_status call made at any point
\* while shutdown or initialize_from_configs is in progress never returns a
\* toolkit for, or reports as connected, a server instance on which close
\* has already been invoked.
C33_NoClosedInstanceServed ==
    /\ \A name \in AskedNames :
          GetToolkitForServer(name) # <<>> => servers[name] \notin Closed
    /\ \A name \in DOMAIN GetSystemStatus.servers :
          GetSystemStatus.servers[name].connected
              => servers[name] \notin Closed

\* C34: at every point where no operation is in progress each instance whose
\* start succeeded and whose close has not been attempted is stored in the
\* running map.
C34_NoOrphan ==
    AllReturned => \A id \in DOMAIN inst : id \notin Closed => id \in Held

\* the names of the enabled descriptors of the tracked list
TrackedEnabled ==
    {EnabledConfigs(mconfigs)[k].name : k \in DOMAIN EnabledConfigs(mconfigs)}

\* C35: at every point where no manager operation is in progress, the
\* initialized flag is true if and only if the running map is non-empty, and
\* every name in the running map is the name of an enabled descriptor in the
\* tracked descriptor list.
C35_FlagMatchesRunningMap ==
    AllReturned =>
        /\ initialized <=> (DOMAIN servers # {})
        /\ DOMAIN servers \subseteq TrackedEnabled

\* C36: a start task that ends with any raised error, a cancellation
\* included, adds nothing to the success count: the initialized flag is
\* never set by a batch in which no start stored an instance in the running
\* map.
C36_FlagNeedsStoredInstance ==
    [][\A c \in Callers :
          (InitReturns(c) /\ ~initialized /\ initialized')
              => StartedOk(c) # {}]_vars

-----------------------------------------------------------------------------
\* MCPManager: progress of initialize_from_configs and shutdown

\* the event loop runs a woken waiter and a coroutine that can go on, and
\* every start and every close that is awaited finishes
MgrRaceFairSpec ==
    /\ MgrRaceSpec
    /\ \A c \in Callers :
          /\ WF_vars(LockGranted(c))
          /\ WF_vars(\E i \in 1..MaxRaceConfigs : StartCompletes(c, i))
          /\ WF_vars(InitFinish(c))
          /\ WF_vars(\E id \in DOMAIN inst, raises \in BOOLEAN :
                        ShutdownClose(c, id, raises))
          /\ WF_vars(ShutdownFinish(c))

\* C37: provided every server start and close eventually finishes, every
\* initialize_from_configs and shutdown call eventually returns with the
\* manager lock released, for any number of concurrent callers: no call
\* waits for the lock forever and none acquires the lock while already
\* holding it.
C37_CallsReturn ==
    /\ \A c \in Callers : (mpc[c] # "idle") ~> (mpc[c] = "idle")
    /\ [](\A c \in Callers :
            /\ mpc[c] = "idle" => mlock.holder # c
            /\ mlock.holder = c =>
                  \A k \in 1..Len(mlock.waiters) : mlock.waiters[k] # c)

\* two callers wait for the lock while the third holds it
C37_Witness ==
    /\ mlock.holder \in Callers
    /\ Len(mlock.waiters) = 2
    /\ \A k \in 1..2 : mpc[mlock.waiters[k]] = "wait_lock"

-----------------------------------------------------------------------------
\* MCPToolkit.reload_functions on a toolkit a caller keeps

\* toolkit = get_toolkit_for_server(name), kept by the caller when it is one
ObtainToolkit(name) ==
    /\ toolkit = <<>>
    /\ GetToolkitForServer(name) # <<>>
    /\ toolkit' = << [t |-> GetToolkitForServer(name)[1], reloads |-> 0] >>
    /\ UNCHANGED <<storeVars, mgrVars, singletonVars, usecaseVars,
                   attachVars, paramsVars, providerVars, systemVars>>

\* reload_functions: self.functions.clear(), then _load_functions(), which
\* reads the functions of self._mcp_tools, the instance the toolkit was
\* built around
ReloadedToolkit(t) == [t EXCEPT !.functions = LoadFunctions(t.mcp_tools)]

\* toolkit.reload_functions()
ReloadFunctions ==
    /\ toolkit # <<>>
    /\ toolkit[1].reloads < MaxReloads
    /\ toolkit' = << [t |-> ReloadedToolkit(toolkit[1].t),
                      reloads |-> toolkit[1].reloads + 1] >>
    /\ UNCHANGED <<storeVars, mgrVars, singletonVars, usecaseVars,
                   attachVars, paramsVars, providerVars, systemVars>>

ToolkitInit == MgrInit

ToolkitNext ==
    \/ MgrNext
    \/ \E name \in ServerNames : ObtainToolkit(name)
    \/ ReloadFunctions

ToolkitSpec == ToolkitInit /\ [][ToolkitNext]_vars

\* reload_functions() returns in this step
ReloadFunctionsReturns ==
    /\ toolkit # <<>> /\ toolkit' # <<>>
    /\ toolkit'[1].reloads = toolkit[1].reloads + 1

\* the manager holds, under the toolkit's name, another instance than the
\* one the toolkit was obtained for
Replaced ==
    /\ toolkit # <<>>
    /\ toolkit[1].t.server_name \in DOMAIN servers
    /\ servers[toolkit[1].t.server_name] # toolkit[1].t.mcp_tools

\* C32: after the manager has replaced the running instance stored under a
\* server name, reload_functions() on a toolkit obtained for that name
\* before the replacement makes the toolkit's function mapping equal to that
\* of the instance the manager now holds under that name; calling it twice
\* in a row gives the same mapping as calling it once.
C32_ReloadFollowsManager ==
    [][ReloadFunctionsReturns =>
          /\ Replaced =>
                toolkit'[1].t.functions
                    = FunctionsOf(servers[toolkit[1].t.server_name])
          /\ ReloadedToolkit(toolkit'[1].t) = toolkit'[1].t]_vars

(***************************************************************************)
(* MCPManager.initialize_system.  The coroutine suspends only inside       *)
(* `await self.initialize_from_configs(configs)`: what precedes the await  *)
(* is one step, the await is the manager's own steps, and the final        *)
(* `return self.is_initialized()` follows the return of the awaited call   *)
(* with nothing in between.                                                *)
(***************************************************************************)
D_nocmd == [name |-> "s2", enabled |-> TRUE, command |-> "", args |-> "old.js",
    description |-> "no command"]

\* what an injected params manager may hand out
SystemDescriptors == {D_s1, D_s2off, D_s2bad, D_nocmd}

SystemBatches == SeqsUpTo(SystemDescriptors, MaxConfigs)

\* validate_config: a name and a command are required; a timeout that is
\* not positive is replaced, never refused
ValidateConfig(config) == config.name # "" /\ config.command # ""

\* [cfg for cfg in ... if self._params_manager.validate_config(cfg)]
ValidConfigs(configs) == SelectSeq(configs, ValidateConfig)

\* self._params_manager.get_default_params(): MCPParamsManager reads the
\* servers document; a params manager given to the constructor hands out
\* its own batch
ParamsManagerGetDefaultParams(batch) ==
    IF paramsManager = "default"
    THEN GetDefaultParams(settings, payload)
    ELSE [kind |-> "ok", value |-> batch]

SysReturned(given, value) ==
    [stage |-> "returned", given |-> given, at |-> 0, value |-> value]

\* initialize_system up to its first await: the early returns, the
\* exception get_default_params lets through, or the filtered batch with
\* which initialize_from_configs is about to be called
InitializeSystem(c, batch) ==
    /\ mpc[c] = "idle"
    /\ syscall[c].stage # "calling"
    /\ ncalls < MaxCalls
    /\ IF ~settings.enable_mcp_system
       THEN syscall' = [syscall EXCEPT ![c] = SysReturned(<<>>, "False")]
       ELSE LET got == ParamsManagerGetDefaultParams(batch)
            IN IF got.kind # "ok"
               THEN syscall' = [syscall EXCEPT ![c] =
                       [stage |-> "raised", given |-> <<>>, at |-> 0,
                        value |-> got.kind]]
               ELSE IF ValidConfigs(got.value) = <<>>
               THEN syscall' = [syscall EXCEPT ![c] =
                       SysReturned(got.value, "False")]
               ELSE syscall' = [syscall EXCEPT ![c] =
                       [stage |-> "calling", given |-> got.value,
                        at |-> ncalls, value |-> "none"]]
    /\ UNCHANGED <<storeVars, mgrVars, singletonVars, usecaseVars, attachVars,
                   paramsVars, providerVars, toolkitVars>>

\* initialize_system is about to call initialize_from_configs
SysToIssue(c) == syscall[c].stage = "calling" /\ ncalls = syscall[c].at

\* the awaited initialize_from_configs has returned
SysToReturn(c) ==
    /\ syscall[c].stage = "calling"
    /\ ncalls > syscall[c].at
    /\ mpc[c] = "idle"

\* no initialize_system is between two steps that no await separates
Quiet == \A c \in Callers : ~SysToIssue(c) /\ ~SysToReturn(c)

\* `return self.is_initialized()`
InitializeSystemReturn(c) ==
    /\ SysToReturn(c)
    /\ syscall' = [syscall EXCEPT ![c] =
          SysReturned(@.given, IF IsInitialized THEN "True" ELSE "False")]
    /\ UNCHANGED <<storeVars, mgrVars, singletonVars, usecaseVars, attachVars,
                   paramsVars, providerVars, toolkitVars>>

\* MCP_* of the environment: the subsystem switched on or off
SystemSettings ==
    {[enable_mcp_system |-> e,
      enabled_servers |-> ParseEnabledServers(<<"S1", " ", "s2">>)] :
        e \in BOOLEAN}

\* the bundled servers document
SystemDocument ==
    << [name |-> "s1", command |-> "npx a", args |-> NoList,
        enabled |-> "true"] >>

\* a manager built with the default or with an injected params manager
SystemInit ==
    /\ MgrFresh /\ StoreParked /\ traced = FALSE
    /\ nconstruct = 0 /\ lastRef = "m1"
    /\ paramsManager \in {"default", "injected"}
    /\ request = NoRequest
    /\ selections = <<>>
    /\ AttachFresh
    /\ settings \in SystemSettings
    /\ payload = SystemDocument
    /\ defaultParams = NotCalled
    /\ buildConfig = <<>>
    /\ buildOverrides = <<>>
    /\ secretEnv = NoEnv
    /\ builtModel = NotCalled
    /\ toolkit = <<>>
    /\ syscall = [c \in Callers |-> NoSysCall]

SystemNext ==
    \E c \in Callers \ {"c"} :
        \/ Quiet /\ \E batch \in SystemBatches : InitializeSystem(c, batch)
        \/ SysToIssue(c)
              /\ InitializeFromConfigs(c, ValidConfigs(syscall[c].given))
        \/ InitializeSystemReturn(c)
        \/ Quiet /\ Shutdown(c)
        \/ Quiet /\ LockGranted(c)
        \/ Quiet /\ \E i \in 1..MaxConfigs : StartCompletes(c, i)
        \/ Quiet /\ InitFinish(c)
        \/ Quiet /\ \E id \in DOMAIN inst, raises \in BOOLEAN :
                       ShutdownClose(c, id, raises)
        \/ Quiet /\ ShutdownFinish(c)

SystemSpec == SystemInit /\ [][SystemNext]_vars

\* initialize_system of caller c ends in this step
SystemEnds(c) == syscall'[c] # syscall[c] /\ syscall'[c].stage # "calling"

\* the start of the i-th enabled descriptor of caller c's batch ends in this
\* step
StartEnds(c, i) ==
    /\ mpc[c] = "gather"
    /\ i \in DOMAIN results[c]
    /\ results[c][i] = "pending"
    /\ results'[c][i] # "pending"

\* C31: initialize_system starts a server only for a descriptor that is
\* enabled and passes validate_config; with the subsystem disabled or no
\* valid descriptor it returns false and leaves the manager state as it
\* was; otherwise it returns true exactly when a server is running at its
\* return
C31_InitializeSystem ==
    [][\A c \in Callers :
          /\ \A i \in 1..MaxConfigs :
                StartEnds(c, i) =>
                    LET d == EnabledConfigs(mcall[c].configs)[i]
                    IN d.enabled /\ ValidateConfig(d)
          /\ SystemEnds(c) =>
                /\ syscall'[c].value \in {"True", "False"}
                /\ IF \/ ~settings.enable_mcp_system
                      \/ ValidConfigs(syscall'[c].given) = <<>>
                   THEN /\ syscall'[c].value = "False"
                        /\ UNCHANGED <<servers, mconfigs, initialized, inst>>
                   ELSE syscall'[c].value = "True" <=> DOMAIN servers' # {}]_vars

====
